---- MODULE Spec2Model ----
(***************************************************************************)
(* Verification model of the krawall session engine glue:                  *)
(*   - POST /api/execute/batch and GET /api/execute/batch/{batchId}        *)
(*   - the session-execution and metrics-aggregation workers               *)
(*   - the WebSocket, gRPC and SSE connectors                              *)
(*   - the PluginLoader registry and validatePluginConfig                  *)
(*   - the openai and anthropic conversation plugins                       *)
(*   - the session executor's dispatch, concurrency limit and cancellation *)
(*   - the MetricsCollector (repetition score, similarity, percentiles)    *)
(***************************************************************************)
EXTENDS Integers, Sequences, FiniteSets, TLC

(***************************************************************************)
(* Bounds of the model                                                     *)
(***************************************************************************)
MaxRequests == 1
MaxTargetIds == 2
MaxPlugins == 3
MaxSends == 2
MaxChunks == 2
MaxLate == 1
MaxSockets == 2
MaxIdleSockets == 3
MaxFrames == 2
MaxHistory == 3
MaxTokens == 2
HookConcurrency == 2
MaxSteps == 5
MaxConcurrency == 2
MaxFields == 2
MaxStrLen == 3
MaxRecords == 12
MaxPlain == 1
MaxSample == 4
MaxRamp == 101
MaxDeliveries == 2

(***************************************************************************)
(* Persistence store contents that the batch route only reads              *)
(***************************************************************************)
Targets == {"t1", "t2", "t3"}
ActiveTargets == {"t1", "t2"}
Scenarios == {"s1", "s2"}
ActiveScenarios == {"s1"}
ScenarioIds == {"s1", "s2", "sX"}
Modes == {"parallel", "sequential"}

TerminalStatuses == {"COMPLETED", "FAILED", "CANCELLED"}
SessionStatuses == {"PENDING", "QUEUED", "RUNNING"} \cup TerminalStatuses

VARIABLES
    requests,      \* POST /api/execute/batch invocations, in arrival order
    sessions,      \* prisma.session rows, in createdAt order
    sessionJobs,   \* jobs handed to the session-execution queue
    metricsJobs,   \* session ids waiting in the metrics-aggregation queue
         \* messages.jsonl of each session, as the metrics worker finds it
    lastGet,       \* last answer of GET /api/execute/batch/{batchId}, per batch
    forwardOnly    \* history: no session status has moved backward so far

batchVars == <<requests, sessions, sessionJobs, metricsJobs, lastGet, forwardOnly>>

VARIABLES
    plugins,       \* PluginLoader.plugins: the Map's entries in insertion order
    compatible     \* what the last PluginLoader.getCompatible call returned

pluginVars == <<plugins, compatible>>

VARIABLES
    connector, \* the class ConnectorRegistry.create instantiated
    configOk,      \* whether config.endpoint (gRPC: the proto config) is usable
    client,        \* gRPC: this.client, SSE: this.httpClient is set
    isConnected,   \* this.isConnected (SSE: this._connected)
    calls          \* the sendMessage calls made on the connector, in call order

VARIABLES
    connections,        \* WebSocket: the connect() runs that made a promise
    ws,                 \* this.ws: its connection, 0 for null
    connectionPromise,  \* this.connectionPromise: its connection, 0 for null
    reconnectAttempts,  \* this.reconnectAttempts
    reconnectTimers,    \* reconnection timers of handleDisconnect still pending
    messageQueue,       \* this.messageQueue: the calls of its entries
    frames,             \* number of frames received so far
    fifoSends,          \* history: calls queued since the queue was last empty
    fifoFrames,         \* history: frames that resolved an entry since then
    undisturbed,        \* history: no entry left the queue but by a frame since then
    disconnectCalled    \* history: disconnect() was called, and connect() not since

wsVars == <<connections, ws, connectionPromise, reconnectAttempts, reconnectTimers,
            messageQueue, frames, fifoSends, fifoFrames, undisturbed,
            disconnectCalled>>

connVars == <<connector, configOk, client, isConnected, calls, wsVars>>

VARIABLES
    contexts,       \* the PluginContext of each session
    solo,           \* the same, in the run where session "B" is the only session
    inFlightSends   \* connector calls of each session between beforeSend and its end

hookVars == <<contexts, solo, inFlightSends>>

VARIABLES
    stepCount,         \* number of message steps of the session's flow
    concurrency,       \* the scenario's concurrency
    onError,           \* the scenario's error-handling policy
    stepState,         \* each message step: queued, inFlight, succeeded, failed
    dispatches,        \* how often each message step was dispatched
    cancelRequested,   \* a cancel request for the session was made
    inFlightAtCancel,  \* history: the calls in flight when it was made
    aborted,           \* a failure under the abort policy ended the dispatching
    execStatus         \* RUNNING, then the terminal status of the session

execVars == <<stepCount, concurrency, onError, stepState, dispatches, cancelRequested,
              inFlightAtCancel, aborted, execStatus>>

VARIABLES
    valPlugin,   \* validatePluginConfig: what this.plugins.get(pluginId) finds
    valConfig,   \* the config it is given
    valErrors    \* the errors it returned

valVars == <<valPlugin, valConfig, valErrors>>

VARIABLES
    metrics,            \* MetricsCollector.metrics
    previousResponses,  \* MetricsCollector.previousResponses
    responsesSeen,      \* history: every response given to recordWithResponse
    simArgs,            \* the two strings calculateSimilarity is called with
    simResult           \* what it returned

metricVars == <<metrics, previousResponses, responsesSeen, simArgs, simResult>>

VARIABLES
    sentMessages,    \* the sent entries of the message log the worker reads
    summary,         \* what MetricsCollector.getSummary returned
    workerSummary    \* the percentiles the metrics worker computed

percentileVars == <<sentMessages, summary, workerSummary>>

VARIABLES
    sessionLogPath,  \* the session the aggregation job names has a log path
    messagesJsonl,   \* the parsed lines of its messages.jsonl
    jobRuns,         \* the deliveries of the job: where each handler run is
    sessionSummary,  \* session.summaryMetrics
    summaryWrites    \* history: how often summaryMetrics was written

aggregationVars ==
    <<sessionLogPath, messagesJsonl, jobRuns, sessionSummary, summaryWrites>>

nonBatchVars ==
    <<pluginVars, connVars, hookVars, execVars, valVars,
      metricVars, percentileVars, aggregationVars>>
nonPluginVars ==
    <<batchVars, connVars, hookVars, execVars, valVars,
      metricVars, percentileVars, aggregationVars>>
nonConnVars ==
    <<batchVars, pluginVars, hookVars, execVars, valVars,
      metricVars, percentileVars, aggregationVars>>
nonHookVars ==
    <<batchVars, pluginVars, connVars, execVars, valVars,
      metricVars, percentileVars, aggregationVars>>
nonExecVars ==
    <<batchVars, pluginVars, connVars, hookVars, valVars,
      metricVars, percentileVars, aggregationVars>>
nonValVars ==
    <<batchVars, pluginVars, connVars, hookVars, execVars,
      metricVars, percentileVars, aggregationVars>>
nonMetricVars ==
    <<batchVars, pluginVars, connVars, hookVars, execVars,
      valVars, percentileVars, aggregationVars>>
nonPercentileVars ==
    <<batchVars, pluginVars, connVars, hookVars, execVars,
      valVars, metricVars, aggregationVars>>
nonAggregationVars ==
    <<batchVars, pluginVars, connVars, hookVars, execVars,
      valVars, metricVars, percentileVars>>

vars ==
    <<batchVars, pluginVars, connVars, hookVars, execVars,
      valVars, metricVars, percentileVars, aggregationVars>>

(***************************************************************************)
(* Helpers                                                                 *)
(***************************************************************************)
SeqsUpTo(S, n) == UNION {[1..k -> S] : k \in 0..n}

Range(s) == {s[i] : i \in DOMAIN s}

RECURSIVE SelectIdx(_, _, _)
\* the indices i of s, ascending, with Test[i]
SelectIdx(n, Test, i) ==
    IF i > n THEN <<>>
    ELSE (IF Test[i] THEN <<i>> ELSE <<>>) \o SelectIdx(n, Test, i + 1)

(***************************************************************************)
(* The order of the session statuses                                       *)
(***************************************************************************)
StatusRank(status) ==
    CASE status = "PENDING" -> 0
      [] status = "QUEUED" -> 1
      [] status = "RUNNING" -> 2
      [] OTHER -> 3

\* history: every session's status is, after the step, at or ahead of where
\* it was, and a terminal status is kept
MovesForward(before, after) ==
    \A s \in DOMAIN before :
        /\ StatusRank(after[s].status) >= StatusRank(before[s].status)
        /\ before[s].status \in TerminalStatuses => after[s].status = before[s].status

(***************************************************************************)
(* POST /api/execute/batch                                                 *)
(***************************************************************************)
\* what a client (BatchExecuteForm.handleSubmit) can post
Bodies ==
    [scenarioId : ScenarioIds, targetIds : SeqsUpTo(Targets, MaxTargetIds), mode : Modes]

\* BatchExecuteSchema.parse: a z.object keeps only the keys it declares, so
\* "mode" is dropped; targetIds needs at least one entry
SchemaAccepts(body) == Len(body.targetIds) >= 1

BatchExecuteSchema(body) ==
    [scenarioId |-> body.scenarioId, targetIds |-> body.targetIds]

\* data.targetIds.filter((id) => !foundIds.has(id))
missingIds(data) ==
    SelectSeq(data.targetIds, LAMBDA id : id \notin ActiveTargets)

\* the response of the validation part of POST, 0 when validation passes
ValidationResponse(body) ==
    IF ~SchemaAccepts(body) THEN 400
    ELSE IF BatchExecuteSchema(body).scenarioId \notin Scenarios THEN 404
    ELSE IF BatchExecuteSchema(body).scenarioId \notin ActiveScenarios THEN 400
    ELSE IF Len(missingIds(BatchExecuteSchema(body))) > 0 THEN 400
    ELSE 0

\* the async callbacks data.targetIds.map(...) starts, one per entry
StartTasks(data) == [i \in 1..Len(data.targetIds) |-> [pc |-> "create", sid |-> 0]]

\* POST up to the first await inside Promise.all: parse, validate, make the
\* batch id, start one task per entry of targetIds
POST(body) ==
    /\ Len(requests) < MaxRequests
    /\ LET code == ValidationResponse(body)
           data == BatchExecuteSchema(body)
           r == Len(requests) + 1
       IN requests' = Append(requests,
              [body |-> body,
               response |-> code,
               batchId |-> IF code = 0 THEN r ELSE 0,
               tasks |-> IF code = 0 THEN StartTasks(data) ELSE <<>>])
    /\ UNCHANGED <<sessions, sessionJobs, metricsJobs, lastGet>>
    /\ UNCHANGED forwardOnly
    /\ UNCHANGED nonBatchVars

TaskAt(r, i, pc) ==
    /\ r \in DOMAIN requests
    /\ i \in DOMAIN requests[r].tasks
    /\ requests[r].tasks[i].pc = pc

SetTask(r, i, pc, sid) ==
    [requests EXCEPT ![r].tasks[i] = [pc |-> pc, sid |-> sid]]

\* prisma.session.create({data: {targetId, scenarioId, status: "PENDING",
\*   executionConfig: {...executionConfig, batchId}, startedAt}})
NewSession(targetId, scenarioId, batchId) ==
    [targetId |-> targetId,
     scenarioId |-> scenarioId,
     status |-> "PENDING",
     batchId |-> batchId,
     logPath |-> FALSE,
     summaryMetrics |-> "null"]

CreateSession(r, i) ==
    /\ TaskAt(r, i, "create")
    /\ sessions' = Append(sessions,
           NewSession(requests[r].body.targetIds[i], requests[r].body.scenarioId,
                      requests[r].batchId))
    /\ requests' = SetTask(r, i, "enqueue", Len(sessions) + 1)
    /\ UNCHANGED <<sessionJobs, metricsJobs, lastGet>>
    /\ forwardOnly' = (forwardOnly /\ MovesForward(sessions, sessions'))
    /\ UNCHANGED nonBatchVars

\* await addSessionJob({sessionId: session.id, ...})
AddSessionJob(r, i) ==
    /\ TaskAt(r, i, "enqueue")
    /\ sessionJobs' = Append(sessionJobs,
           [sessionId |-> requests[r].tasks[i].sid, state |-> "waiting"])
    /\ requests' = SetTask(r, i, "update", requests[r].tasks[i].sid)
    /\ UNCHANGED <<sessions, metricsJobs, lastGet>>
    /\ UNCHANGED forwardOnly
    /\ UNCHANGED nonBatchVars

\* await prisma.session.update({where: {id}, data: {status: "QUEUED"}})
QueuedStatus == "QUEUED"

UpdateQueued(r, i) ==
    /\ TaskAt(r, i, "update")
    /\ sessions' = [sessions EXCEPT ![requests[r].tasks[i].sid].status = QueuedStatus]
    /\ requests' = SetTask(r, i, "done", requests[r].tasks[i].sid)
    /\ UNCHANGED <<sessionJobs, metricsJobs, lastGet>>
    /\ forwardOnly' = (forwardOnly /\ MovesForward(sessions, sessions'))
    /\ UNCHANGED nonBatchVars

\* one of the awaited calls of a task rejects (store or queue error):
\* Promise.all rejects at the first one and the catch block answers 500,
\* the other tasks keep running
TaskFails(r, i) ==
    /\ \/ TaskAt(r, i, "create")
       \/ TaskAt(r, i, "enqueue")
       \/ TaskAt(r, i, "update")
    /\ requests' = [SetTask(r, i, "failed", requests[r].tasks[i].sid)
                       EXCEPT ![r].response = IF @ = 0 THEN 500 ELSE @]
    /\ UNCHANGED <<sessions, sessionJobs, metricsJobs, lastGet>>
    /\ UNCHANGED forwardOnly
    /\ UNCHANGED nonBatchVars

\* Promise.all resolved: NextResponse.json({success: true, ...}, {status: 202})
Respond202(r) ==
    /\ r \in DOMAIN requests
    /\ requests[r].response = 0
    /\ \A i \in DOMAIN requests[r].tasks : requests[r].tasks[i].pc = "done"
    /\ requests' = [requests EXCEPT ![r].response = 202]
    /\ UNCHANGED <<sessions, sessionJobs, metricsJobs, lastGet>>
    /\ UNCHANGED forwardOnly
    /\ UNCHANGED nonBatchVars

(***************************************************************************)
(* Session-execution worker (lib/jobs/workers/session-executor)            *)
(***************************************************************************)
\* a worker takes a waiting job and begins executing: status RUNNING
SessionWorkerStart(j) ==
    /\ j \in DOMAIN sessionJobs
    /\ sessionJobs[j].state = "waiting"
    /\ sessionJobs' = [sessionJobs EXCEPT ![j].state = "active"]
    /\ sessions' = [sessions EXCEPT ![sessionJobs[j].sessionId].status = "RUNNING"]
    /\ UNCHANGED <<requests, metricsJobs, lastGet>>
    /\ forwardOnly' = (forwardOnly /\ MovesForward(sessions, sessions'))
    /\ UNCHANGED nonBatchVars

\* the executor finalizes: terminal status, the log handle, and a
\* metrics-aggregation job for the session
SessionWorkerFinish(j, outcome, logPath) ==
    /\ j \in DOMAIN sessionJobs
    /\ sessionJobs[j].state = "active"
    /\ outcome \in TerminalStatuses
    /\ sessionJobs' = [sessionJobs EXCEPT ![j].state = "completed"]
    /\ sessions' = [sessions EXCEPT ![sessionJobs[j].sessionId].status = outcome,
                                    ![sessionJobs[j].sessionId].logPath = logPath]
    /\ metricsJobs' = metricsJobs \cup {sessionJobs[j].sessionId}
    /\ UNCHANGED <<requests, lastGet>>
    /\ forwardOnly' = (forwardOnly /\ MovesForward(sessions, sessions'))
    /\ UNCHANGED nonBatchVars

(***************************************************************************)
(* Metrics-aggregation worker                                              *)
(***************************************************************************)
\* what fs.readFile of messages.jsonl and the parse of its lines give
LogReads == {"unreadable", "empty", "data"}

\* the job handler of createMetricsWorker reaches prisma.session.update only
\* with a log path, a readable file and at least one message
MetricsWrites(session, read) ==
    /\ session.logPath
    /\ read = "data"

MetricsWorker(s, read) ==
    /\ s \in metricsJobs
    /\ s \in DOMAIN sessions
    /\ metricsJobs' = metricsJobs \ {s}
    /\ sessions' = IF MetricsWrites(sessions[s], read)
                   THEN [sessions EXCEPT ![s].summaryMetrics = "aggregated"]
                   ELSE sessions
    /\ UNCHANGED <<requests, sessionJobs, lastGet>>
    /\ forwardOnly' = (forwardOnly /\ MovesForward(sessions, sessions'))
    /\ UNCHANGED nonBatchVars

(***************************************************************************)
(* GET /api/execute/batch/{batchId}                                        *)
(***************************************************************************)
\* prisma.session.findMany({where: batchId, orderBy: createdAt}): statuses
members(batchId) ==
    LET idx == SelectIdx(Len(sessions),
                         [i \in 1..Len(sessions) |-> sessions[i].batchId = batchId], 1)
    IN [k \in 1..Len(idx) |-> sessions[idx[k]].status]

statusCount(found, status) == Cardinality({i \in DOMAIN found : found[i] = status})

finishedSessions(found) ==
    statusCount(found, "COMPLETED") + statusCount(found, "FAILED")
        + statusCount(found, "CANCELLED")

batchStatus(found) ==
    IF finishedSessions(found) = Len(found)
    THEN (IF statusCount(found, "FAILED") > 0 THEN "completed_with_errors" ELSE "completed")
    ELSE (IF statusCount(found, "RUNNING") > 0 THEN "running" ELSE "pending")

\* Math.round(progress * 100) / 100 of (finished / total) * 100, in hundredths
progress(found) ==
    (2 * finishedSessions(found) * 10000 + Len(found)) \div (2 * Len(found))

GET(batchId) ==
    /\ batchId \in 1..MaxRequests
    /\ LET found == members(batchId)
       IN lastGet' = [lastGet EXCEPT ![batchId] =
              IF Len(found) = 0
              THEN [code |-> 404, status |-> "none", progress |-> 0]
              ELSE [code |-> 200, status |-> batchStatus(found),
                    progress |-> progress(found)]]
    /\ lastGet'[batchId] # lastGet[batchId]
    /\ UNCHANGED <<requests, sessions, sessionJobs, metricsJobs>>
    /\ UNCHANGED forwardOnly
    /\ UNCHANGED nonBatchVars


(***************************************************************************)
(* PluginLoader                                                            *)
(***************************************************************************)
DEFAULT_PRIORITY == 100

\* ConnectorPlugin.priority is optional: NoPriority stands for undefined
NoPriority == -1

PluginIds == 1..MaxPlugins
Priorities == {NoPriority, 50, 200}
ConnectorTypes == {"HTTP_REST", "WEBSOCKET"}
CompatibleConnectors == {{"HTTP_REST"}, {"WEBSOCKET"}, {"HTTP_REST", "WEBSOCKET"}}

ConnectorPlugin ==
    [id : PluginIds, priority : Priorities, compatibleConnectors : CompatibleConnectors]

NoCall == [connectorType |-> "none", result |-> <<>>]

\* this.plugins.has(pluginId)
isRegistered(pluginId) == \E i \in DOMAIN plugins : plugins[i].id = pluginId

\* this.plugins.set(plugin.id, plugin): a new key goes last, an existing key
\* keeps its place and gets the new value
MapSet(map, plugin) ==
    IF \E i \in DOMAIN map : map[i].id = plugin.id
    THEN [i \in DOMAIN map |-> IF map[i].id = plugin.id THEN plugin ELSE map[i]]
    ELSE Append(map, plugin)

register(plugin) ==
    /\ plugins' = MapSet(plugins, plugin)
    /\ plugins' # plugins
    /\ compatible' = NoCall
    /\ UNCHANGED nonPluginVars

\* this.plugins.delete(pluginId)
unregister(pluginId) ==
    /\ isRegistered(pluginId)
    /\ plugins' = SelectSeq(plugins, LAMBDA p : p.id # pluginId)
    /\ compatible' = NoCall
    /\ UNCHANGED nonPluginVars

\* this.plugins.clear()
clear ==
    /\ plugins # <<>>
    /\ plugins' = <<>>
    /\ compatible' = NoCall
    /\ UNCHANGED nonPluginVars

\* a mutant of PriorityOf: an unset priority sorts as 0
PriorityOfDefaultZero(p) == IF p.priority = NoPriority THEN 0 ELSE p.priority

\* (a.priority ?? DEFAULT_PRIORITY)
PriorityOf(p) == IF p.priority = NoPriority THEN DEFAULT_PRIORITY ELSE p.priority

\* Array.prototype.sort with the comparator PriorityOf(a) - PriorityOf(b): the
\* sort is stable, so an element goes behind the ones that compare <= to it
RECURSIVE InsertSorted(_, _)
InsertSorted(sorted, p) ==
    IF sorted = <<>> THEN <<p>>
    ELSE IF PriorityOf(Head(sorted)) - PriorityOf(p) <= 0
         THEN <<Head(sorted)>> \o InsertSorted(Tail(sorted), p)
         ELSE <<p>> \o sorted

RECURSIVE SortByPriority(_)
SortByPriority(list) ==
    IF list = <<>> THEN <<>>
    ELSE InsertSorted(SortByPriority(SubSeq(list, 1, Len(list) - 1)), list[Len(list)])

\* Array.from(this.plugins.values()).filter(...).sort(...)
getCompatible(connectorType) ==
    SortByPriority(SelectSeq(plugins, LAMBDA p : connectorType \in p.compatibleConnectors))

GetCompatible(connectorType) ==
    /\ compatible.connectorType # connectorType
    /\ compatible' = [connectorType |-> connectorType, result |-> getCompatible(connectorType)]
    /\ UNCHANGED plugins
    /\ UNCHANGED nonPluginVars

NextPlugins ==
    \/ \E plugin \in ConnectorPlugin : register(plugin)
    \/ \E pluginId \in PluginIds : unregister(pluginId)
    \/ clear
    \/ \E connectorType \in ConnectorTypes : GetCompatible(connectorType)

(***************************************************************************)
(* Connectors: what the three connector classes share                      *)
(***************************************************************************)
Messages == {"a", "b"}

\* a sendMessage call and the promise it returned; timer, sendCb, stream,
\* streamComplete, responseContent and post are the callbacks and locals of
\* that one call; received is the history of the well-formed events its
\* stream delivered, socket the WebSocket (this.ws) it was sent on
NewCall(message) ==
    [message |-> message,
     status |-> "pending",
     success |-> "absent",
     content |-> <<>>,
     error |-> "none",
     timer |-> FALSE,
     sendCb |-> "none",
     stream |-> "none",
     streamComplete |-> FALSE,
     responseContent |-> <<>>,
     received |-> <<>>,
     socket |-> 0,
     post |-> "none"]

\* resolve(response) of a promise: no effect once the promise is settled
Resolve(call, success, content) ==
    IF call.status = "pending"
    THEN [call EXCEPT !.status = "resolved", !.success = success, !.content = content]
    ELSE call

\* reject(error) of a promise: no effect once the promise is settled
Reject(call, error) ==
    IF call.status = "pending"
    THEN [call EXCEPT !.status = "rejected", !.error = error]
    ELSE call

\* an async method that throws before it returns its promise
Throw(message, error) == Reject(NewCall(message), error)

CallIs(c, status) == c \in DOMAIN calls /\ calls[c].status = status

(***************************************************************************)
(* WebSocketConnector                                                      *)
(***************************************************************************)
MAX_RECONNECT_ATTEMPTS == 5

\* one connect() run that made a promise: the socket it created ("none"
\* when new URL(endpoint) threw), the promise, and its 10 s timer
NewConnection(valid) ==
    IF valid
    THEN [socket |-> "connecting", promise |-> "pending", timer |-> TRUE]
    ELSE [socket |-> "none", promise |-> "rejected", timer |-> FALSE]

\* WebSocket.close() of socket k (k = 0: this.ws is null): CLOSING at once,
\* the close event comes later; a socket closed before it opened also
\* emits error
Close(conns, k) ==
    IF k = 0 THEN conns
    ELSE [conns EXCEPT ![k].socket =
              CASE @ = "connecting" -> "aborting"
                [] @ = "open" -> "closing"
                [] OTHER -> @]

\* queued.reject(error) for every entry of the queue
RejectAll(cs, queue, error) ==
    [c \in DOMAIN cs |-> IF c \in Range(queue) THEN Reject(cs[c], error) ELSE cs[c]]

\* this.messageQueue.findIndex((item) => item.message === message), 0 for -1
findIndex(queue, message) ==
    IF \E i \in DOMAIN queue : calls[queue[i]].message = message
    THEN CHOOSE i \in DOMAIN queue :
             /\ calls[queue[i]].message = message
             /\ \A j \in 1..(i - 1) : calls[queue[j]].message # message
    ELSE 0

\* this.messageQueue.splice(index, 1)
splice(queue, index) ==
    SubSeq(queue, 1, index - 1) \o SubSeq(queue, index + 1, Len(queue))

\* the bound on connect() runs: MaxSockets of them, and MaxIdleSockets as
\* long as no sendMessage call was made
SocketsLeft ==
    \/ Len(connections) < MaxSockets
    \/ calls = <<>> /\ Len(connections) < MaxIdleSockets

\* connect() called while this.connectionPromise is cp
connect(cp) ==
    IF cp # 0
    THEN /\ connectionPromise' = cp
         /\ UNCHANGED <<connections, ws>>
    ELSE /\ connections' = Append(connections, NewConnection(configOk))
         /\ connectionPromise' = Len(connections) + 1
         /\ ws' = IF configOk THEN Len(connections) + 1 ELSE ws

WsConnect ==
    /\ connector = "WEBSOCKET"
    /\ connectionPromise = 0
    /\ SocketsLeft
    /\ connect(connectionPromise)
    /\ UNCHANGED <<connector, configOk, client, isConnected, calls, reconnectAttempts,
                   reconnectTimers, messageQueue, frames, fifoSends, fifoFrames,
                   undisturbed>>
    /\ disconnectCalled' = FALSE
    /\ UNCHANGED nonConnVars

\* the "open" handlers of socket k
WsOpen(k) ==
    /\ connector = "WEBSOCKET"
    /\ k \in DOMAIN connections
    /\ connections[k].socket = "connecting"
    /\ connections' = [connections EXCEPT
           ![k].socket = "open",
           ![k].promise = IF @ = "pending" THEN "resolved" ELSE @,
           ![k].timer = FALSE]
    /\ isConnected' = TRUE
    /\ reconnectAttempts' = 0
    /\ UNCHANGED <<connector, configOk, client, calls, ws, connectionPromise,
                   reconnectTimers, messageQueue, frames, fifoSends, fifoFrames,
                   undisturbed>>
    /\ UNCHANGED disconnectCalled
    /\ UNCHANGED nonConnVars

\* the server starts the closing handshake of an open socket
WsRemoteClosing(k) ==
    /\ connector = "WEBSOCKET"
    /\ k \in DOMAIN connections
    /\ connections[k].socket = "open"
    /\ connections' = [connections EXCEPT ![k].socket = "closing"]
    /\ UNCHANGED <<connector, configOk, client, isConnected, calls, ws, connectionPromise,
                   reconnectAttempts, reconnectTimers, messageQueue, frames, fifoSends,
                   fifoFrames, undisturbed>>
    /\ UNCHANGED disconnectCalled
    /\ UNCHANGED nonConnVars

\* a mutant of Reconnects: one attempt more
ReconnectsOneMore == reconnectAttempts <= MAX_RECONNECT_ATTEMPTS

\* whether handleDisconnect schedules a reconnection
Reconnects == reconnectAttempts < MAX_RECONNECT_ATTEMPTS

\* socket k ends: the "error" handler when it never opened (isConnected =
\* false, reject), then the "close" handler (isConnected = false,
\* handleDisconnect())
OnClose(k) ==
    /\ connections' = [connections EXCEPT
           ![k].socket = "closed",
           ![k].promise = IF @ = "pending" THEN "rejected" ELSE @]
    /\ isConnected' = FALSE
    /\ calls' = RejectAll(calls, messageQueue, "disconnected")
    /\ messageQueue' = <<>>
    /\ reconnectAttempts' = IF Reconnects THEN reconnectAttempts + 1 ELSE reconnectAttempts
    /\ reconnectTimers' = IF Reconnects THEN reconnectTimers + 1 ELSE reconnectTimers
    /\ undisturbed' = FALSE
    /\ UNCHANGED <<connector, configOk, client, ws, connectionPromise, frames, fifoSends,
                   fifoFrames>>
    /\ UNCHANGED disconnectCalled
    /\ UNCHANGED nonConnVars

\* the handshake of a connecting socket fails
WsHandshakeFails(k) ==
    /\ connector = "WEBSOCKET"
    /\ k \in DOMAIN connections
    /\ connections[k].socket = "connecting"
    /\ OnClose(k)

\* the close event of a socket that is closing
WsCloseEvent(k) ==
    /\ connector = "WEBSOCKET"
    /\ k \in DOMAIN connections
    /\ connections[k].socket \in {"closing", "aborting"}
    /\ OnClose(k)

\* the 10 s timer of connect() run k
WsConnectTimeout(k) ==
    /\ connector = "WEBSOCKET"
    /\ k \in DOMAIN connections
    /\ connections[k].timer
    /\ connections' =
           IF ~isConnected
           THEN [Close(connections, ws) EXCEPT
                    ![k].timer = FALSE,
                    ![k].promise = IF @ = "pending" THEN "rejected" ELSE @]
           ELSE [connections EXCEPT ![k].timer = FALSE]
    /\ UNCHANGED <<connector, configOk, client, isConnected, calls, ws, connectionPromise,
                   reconnectAttempts, reconnectTimers, messageQueue, frames, fifoSends,
                   fifoFrames, undisturbed>>
    /\ UNCHANGED disconnectCalled
    /\ UNCHANGED nonConnVars

\* the setTimeout callback of handleDisconnect
WsReconnectTimer ==
    /\ connector = "WEBSOCKET"
    /\ reconnectTimers > 0
    /\ SocketsLeft
    /\ reconnectTimers' = reconnectTimers - 1
    /\ connect(0)
    /\ UNCHANGED <<connector, configOk, client, isConnected, calls, reconnectAttempts,
                   messageQueue, frames, fifoSends, fifoFrames, undisturbed>>
    /\ UNCHANGED disconnectCalled
    /\ UNCHANGED nonConnVars

WsDisconnect ==
    /\ connector = "WEBSOCKET"
    /\ ws # 0 \/ isConnected \/ connectionPromise # 0
    /\ connections' = Close(connections, ws)
    /\ ws' = 0
    /\ isConnected' = FALSE
    /\ connectionPromise' = 0
    /\ UNCHANGED <<connector, configOk, client, calls, reconnectAttempts, reconnectTimers,
                   messageQueue, frames, fifoSends, fifoFrames, undisturbed>>
    /\ disconnectCalled' = TRUE
    /\ UNCHANGED nonConnVars

\* the promise of sendMessage once its executor has run: ws.send throws on
\* a CONNECTING socket (the executor stops, the promise is rejected), hands
\* an error to its callback on a socket that is not OPEN, and sends else
WsStart(message) ==
    IF connections[ws].socket = "connecting"
    THEN Reject([NewCall(message) EXCEPT !.socket = ws], "send threw")
    ELSE IF connections[ws].socket = "open"
         THEN [NewCall(message) EXCEPT !.socket = ws, !.timer = TRUE]
         ELSE [NewCall(message) EXCEPT !.socket = ws, !.timer = TRUE, !.sendCb = "error"]

\* this.messageQueue.push({message, resolve, reject})
push(queue, c) == Append(queue, c)

WsSendMessage(message) ==
    /\ connector = "WEBSOCKET"
    /\ Len(calls) < MaxSends
    /\ Len(connections) <= MaxSockets
    /\ IF ~isConnected \/ ws = 0
       THEN /\ calls' = Append(calls, Throw(message, "not connected"))
            /\ UNCHANGED <<messageQueue, fifoSends, fifoFrames, undisturbed>>
       ELSE /\ calls' = Append(calls, WsStart(message))
            /\ messageQueue' = push(messageQueue, Len(calls) + 1)
            /\ fifoSends' = IF messageQueue = <<>> THEN <<Len(calls) + 1>>
                            ELSE Append(fifoSends, Len(calls) + 1)
            /\ fifoFrames' = IF messageQueue = <<>> THEN <<>> ELSE fifoFrames
            /\ undisturbed' = /\ messageQueue = <<>> \/ undisturbed
                              /\ connections[ws].socket = "open"
    /\ UNCHANGED <<connector, configOk, client, isConnected, connections, ws,
                   connectionPromise, reconnectAttempts, reconnectTimers, frames>>
    /\ UNCHANGED disconnectCalled
    /\ UNCHANGED nonConnVars

\* the entry a timer or send-error callback of a call with this message
\* text removes
RemoveByMessage(queue, message) ==
    IF findIndex(queue, message) # 0 THEN splice(queue, findIndex(queue, message))
    ELSE queue

\* the callback of ws.send called with an error
WsSendError(c) ==
    /\ connector = "WEBSOCKET"
    /\ c \in DOMAIN calls
    /\ calls[c].sendCb = "error"
    /\ messageQueue' = RemoveByMessage(messageQueue, calls[c].message)
    /\ calls' = [calls EXCEPT ![c] = [Reject(@, "send error") EXCEPT !.sendCb = "none"]]
    /\ undisturbed' = FALSE
    /\ UNCHANGED <<connector, configOk, client, isConnected, connections, ws,
                   connectionPromise, reconnectAttempts, reconnectTimers, frames,
                   fifoSends, fifoFrames>>
    /\ UNCHANGED disconnectCalled
    /\ UNCHANGED nonConnVars

\* the setTimeout callback of sendMessage
WsSendTimeout(c) ==
    /\ connector = "WEBSOCKET"
    /\ c \in DOMAIN calls
    /\ calls[c].timer
    /\ messageQueue' = RemoveByMessage(messageQueue, calls[c].message)
    /\ calls' = [calls EXCEPT ![c] =
           [(IF findIndex(messageQueue, calls[c].message) # 0
             THEN Reject(@, "timeout") ELSE @) EXCEPT !.timer = FALSE]]
    /\ undisturbed' = (undisturbed /\ findIndex(messageQueue, calls[c].message) = 0)
    /\ UNCHANGED <<connector, configOk, client, isConnected, connections, ws,
                   connectionPromise, reconnectAttempts, reconnectTimers, frames,
                   fifoSends, fifoFrames>>
    /\ UNCHANGED disconnectCalled
    /\ UNCHANGED nonConnVars

\* a mutant of shift: the newest entry is taken
pop(queue) == [item |-> queue[Len(queue)], rest |-> SubSeq(queue, 1, Len(queue) - 1)]

\* this.messageQueue.shift(): the first entry, and what is left of the queue
shift(queue) == [item |-> Head(queue), rest |-> Tail(queue)]

\* handleMessage(data): a frame that parses resolves the first entry of the
\* queue; one that does not rejects every entry
handleMessage(wellFormed, frame) ==
    IF wellFormed
    THEN /\ calls' = IF messageQueue = <<>> THEN calls
                     ELSE [calls EXCEPT ![shift(messageQueue).item] =
                              Resolve(@, "true", <<frame>>)]
         /\ messageQueue' = IF messageQueue = <<>> THEN <<>> ELSE shift(messageQueue).rest
         /\ fifoFrames' = IF messageQueue = <<>> THEN fifoFrames
                          ELSE Append(fifoFrames, frame)
         /\ UNCHANGED undisturbed
    ELSE /\ calls' = RejectAll(calls, messageQueue, "parse error")
         /\ messageQueue' = <<>>
         /\ undisturbed' = FALSE
         /\ UNCHANGED fifoFrames

\* the "message" handler of socket k; frames are numbered as they arrive
WsMessage(k, wellFormed) ==
    /\ connector = "WEBSOCKET"
    /\ k \in DOMAIN connections
    /\ connections[k].socket \in {"open", "closing"}
    /\ frames < MaxFrames
    /\ frames' = frames + 1
    /\ handleMessage(wellFormed, frames + 1)
    /\ UNCHANGED <<connector, configOk, client, isConnected, connections, ws,
                   connectionPromise, reconnectAttempts, reconnectTimers, fifoSends>>
    /\ UNCHANGED disconnectCalled
    /\ UNCHANGED nonConnVars

NextWS ==
    \/ WsConnect
    \/ \E k \in 1..MaxIdleSockets : WsOpen(k)
    \/ \E k \in 1..MaxIdleSockets : WsRemoteClosing(k)
    \/ \E k \in 1..MaxIdleSockets : WsHandshakeFails(k)
    \/ \E k \in 1..MaxIdleSockets : WsCloseEvent(k)
    \/ \E k \in 1..MaxIdleSockets : WsConnectTimeout(k)
    \/ WsReconnectTimer
    \/ WsDisconnect
    \/ \E message \in Messages : WsSendMessage(message)
    \/ \E c \in 1..MaxSends : WsSendError(c)
    \/ \E c \in 1..MaxSends : WsSendTimeout(c)
    \/ \E k \in 1..MaxIdleSockets, wellFormed \in BOOLEAN : WsMessage(k, wellFormed)

\* the steps of a connector on which no message is sent
NextReconnect ==
    \/ WsConnect
    \/ \E k \in 1..MaxIdleSockets : WsOpen(k)
    \/ \E k \in 1..MaxIdleSockets : WsRemoteClosing(k)
    \/ \E k \in 1..MaxIdleSockets : WsHandshakeFails(k)
    \/ \E k \in 1..MaxIdleSockets : WsCloseEvent(k)
    \/ \E k \in 1..MaxIdleSockets : WsConnectTimeout(k)
    \/ WsReconnectTimer
    \/ WsDisconnect

(***************************************************************************)
(* gRPCConnector                                                           *)
(***************************************************************************)
\* connect(): throws without a proto path or when the service is not in the
\* proto definition (configOk = FALSE), else creates the client
GrpcConnect ==
    /\ connector = "GRPC"
    /\ configOk
    /\ ~(client /\ isConnected)
    /\ client' = TRUE
    /\ isConnected' = TRUE
    /\ UNCHANGED <<connector, configOk, calls, wsVars>>
    /\ UNCHANGED nonConnVars

GrpcDisconnect ==
    /\ connector = "GRPC"
    /\ client \/ isConnected
    /\ client' = FALSE
    /\ isConnected' = FALSE
    /\ UNCHANGED <<connector, configOk, calls, wsVars>>
    /\ UNCHANGED nonConnVars

\* sendMessage up to this.client[methodName](payload, grpcMetadata, callback):
\* no deadline is passed and no timer is started
GrpcSendMessage(message) ==
    /\ connector = "GRPC"
    /\ Len(calls) < MaxSends
    /\ calls' = Append(calls,
           IF ~isConnected \/ ~client
           THEN Throw(message, "not connected")
           ELSE NewCall(message))
    /\ UNCHANGED <<connector, configOk, client, isConnected, wsVars>>
    /\ UNCHANGED nonConnVars

GrpcOutcomes == {"response", "service error", "malformed response"}

\* the callback (error, response) => ... of the unary call
GrpcCallbackResult(call, outcome) ==
    IF outcome = "service error" THEN Reject(call, "grpc error")
    ELSE IF outcome = "malformed response" THEN Reject(call, "extract error")
    ELSE Resolve(call, "true", <<"reply">>)

GrpcCallback(c, outcome) ==
    /\ connector = "GRPC"
    /\ CallIs(c, "pending")
    /\ calls' = [calls EXCEPT ![c] = GrpcCallbackResult(@, outcome)]
    /\ UNCHANGED <<connector, configOk, client, isConnected, wsVars>>
    /\ UNCHANGED nonConnVars

NextGrpc ==
    \/ GrpcConnect
    \/ GrpcDisconnect
    \/ \E message \in Messages : GrpcSendMessage(message)
    \/ \E c \in 1..MaxSends, outcome \in GrpcOutcomes : GrpcCallback(c, outcome)

(***************************************************************************)
(* SSEConnector                                                            *)
(***************************************************************************)
Chunks == {"x", "y"}

\* the payload fields that signal completion: data.done || data.finished ||
\* data.complete
Sentinels == {"done", "finished", "complete"}

SseEvents == Chunks \cup Sentinels \cup {"malformed"}

\* connect(): creates the axios client, _connected = true
SseConnect ==
    /\ connector = "SSE"
    /\ ~(client /\ isConnected)
    /\ client' = TRUE
    /\ isConnected' = TRUE
    /\ UNCHANGED <<connector, configOk, calls, wsVars>>
    /\ UNCHANGED nonConnVars

\* disconnect(): this.eventSource is never assigned (sendMessage keeps its
\* EventSource in a local), so no stream is closed here
SseDisconnect ==
    /\ connector = "SSE"
    /\ client \/ isConnected
    /\ client' = FALSE
    /\ isConnected' = FALSE
    /\ UNCHANGED <<connector, configOk, calls, wsVars>>
    /\ UNCHANGED nonConnVars

\* sendMessage up to the return of its promise: new URL(endpoint) throws for
\* an invalid endpoint (configOk = FALSE) and the catch rejects; else the
\* EventSource is opened, the timer started and the POST issued
SseStart(message) ==
    IF ~isConnected \/ ~client THEN Throw(message, "not connected")
    ELSE IF ~configOk THEN Throw(message, "invalid url")
    ELSE [NewCall(message) EXCEPT !.stream = "open", !.timer = TRUE, !.post = "pending"]

SseSendMessage(message) ==
    /\ connector = "SSE"
    /\ Len(calls) < MaxSends
    /\ calls' = Append(calls, SseStart(message))
    /\ UNCHANGED <<connector, configOk, client, isConnected, wsVars>>
    /\ UNCHANGED nonConnVars

\* a mutant of onmessage: the chunk is put in front of what was accumulated
onmessagePrepends(call, event) ==
    IF event = "malformed" THEN call
    ELSE IF event \in Sentinels
         THEN [Resolve(call, "absent", call.responseContent)
                  EXCEPT !.streamComplete = TRUE, !.stream = "closed"]
         ELSE [call EXCEPT !.responseContent = <<event>> \o @]

\* eventSource.onmessage: a completion signal closes the stream and resolves
\* with what was accumulated; a chunk is appended; a parse error is logged
onmessage(call, event) ==
    IF event = "malformed" THEN call
    ELSE IF event \in Sentinels
         THEN [Resolve(call, "absent", call.responseContent)
                  EXCEPT !.streamComplete = TRUE, !.stream = "closed"]
         ELSE [call EXCEPT !.responseContent = Append(@, event)]

\* the history of a call after its stream delivered this event: the chunk,
\* or that it was a completion signal
Delivered(call, event) ==
    IF event = "malformed" THEN call
    ELSE [call EXCEPT !.received =
              Append(@, IF event \in Sentinels THEN "completion" ELSE event)]

\* the position of the first completion signal among the events a call's
\* stream delivered, 0 when there was none
FirstSentinel(call) ==
    IF \E i \in DOMAIN call.received : call.received[i] = "completion"
    THEN CHOOSE i \in DOMAIN call.received :
             /\ call.received[i] = "completion"
             /\ \A j \in 1..(i - 1) : call.received[j] # "completion"
    ELSE 0

SseMessage(c, event) ==
    /\ connector = "SSE"
    /\ c \in DOMAIN calls
    /\ calls[c].stream = "open"
    /\ event \in Chunks => Len(calls[c].responseContent) < MaxChunks
    /\ calls' = [calls EXCEPT ![c] = Delivered(onmessage(@, event), event)]
    /\ UNCHANGED <<connector, configOk, client, isConnected, wsVars>>
    /\ UNCHANGED nonConnVars

\* close() inside onmessage does not stop the events the EventSource read
\* together with the completion signal: they are still dispatched
SseLateMessage(c, event) ==
    /\ connector = "SSE"
    /\ c \in DOMAIN calls
    /\ calls[c].stream = "closed"
    /\ calls[c].streamComplete
    /\ Len(calls[c].received) - FirstSentinel(calls[c]) < MaxLate
    /\ event # "malformed"
    /\ calls' = [calls EXCEPT ![c] = Delivered(onmessage(@, event), event)]
    /\ UNCHANGED <<connector, configOk, client, isConnected, wsVars>>
    /\ UNCHANGED nonConnVars

\* eventSource.onerror
onerror(call) ==
    [(IF ~call.streamComplete THEN Reject(call, "stream error") ELSE call)
        EXCEPT !.stream = "closed"]

SseError(c) ==
    /\ connector = "SSE"
    /\ c \in DOMAIN calls
    /\ calls[c].stream = "open"
    /\ calls' = [calls EXCEPT ![c] = onerror(@)]
    /\ UNCHANGED <<connector, configOk, client, isConnected, wsVars>>
    /\ UNCHANGED nonConnVars

\* the setTimeout callback of sendMessage
SseTimeoutResult(call) ==
    IF ~call.streamComplete
    THEN [Reject(call, "timeout") EXCEPT !.stream = "closed", !.timer = FALSE]
    ELSE [call EXCEPT !.timer = FALSE]

SseTimeout(c) ==
    /\ connector = "SSE"
    /\ c \in DOMAIN calls
    /\ calls[c].timer
    /\ calls' = [calls EXCEPT ![c] = SseTimeoutResult(@)]
    /\ UNCHANGED <<connector, configOk, client, isConnected, wsVars>>
    /\ UNCHANGED nonConnVars

\* this.httpClient.post("/", payload).then(...).catch(...)
SsePostResult(call, ok) ==
    IF ok THEN [call EXCEPT !.post = "done"]
    ELSE [Reject(call, "post error")
             EXCEPT !.post = "failed", !.timer = FALSE, !.stream = "closed"]

SsePostSettles(c, ok) ==
    /\ connector = "SSE"
    /\ c \in DOMAIN calls
    /\ calls[c].post = "pending"
    /\ calls' = [calls EXCEPT ![c] = SsePostResult(@, ok)]
    /\ UNCHANGED <<connector, configOk, client, isConnected, wsVars>>
    /\ UNCHANGED nonConnVars

NextSSE ==
    \/ SseConnect
    \/ SseDisconnect
    \/ \E message \in Messages : SseSendMessage(message)
    \/ \E c \in 1..MaxSends, event \in SseEvents : SseMessage(c, event)
    \/ \E c \in 1..MaxSends, event \in SseEvents : SseLateMessage(c, event)
    \/ \E c \in 1..MaxSends : SseError(c)
    \/ \E c \in 1..MaxSends : SseTimeout(c)
    \/ \E c \in 1..MaxSends, ok \in BOOLEAN : SsePostSettles(c, ok)

(***************************************************************************)
(* The built-in conversation plugins (openai, anthropic)                   *)
(***************************************************************************)
HookSessions == {"A", "B"}
BuiltinPlugins == {"openai", "anthropic"}
SystemPrompts == {"undefined", "sys"}

\* ConnectorResponse as the hooks read it: content, metadata.tokenUsage is
\* set, metadata.rawResponse.usage (0: absent; else the token count of each
\* of its fields), the text block of rawResponse.content ("none": absent)
HookResponses ==
    {[content |-> "r", tokenUsage |-> FALSE, usage |-> 0, text |-> "none"],
     [content |-> "r", tokenUsage |-> TRUE, usage |-> 1, text |-> "t"]}

NoResult == [hook |-> "none"]

\* a PluginContext before initialize: pluginConfig and an empty state
PluginContext(plugin, prompt) ==
    [plugin |-> plugin,
     pluginConfig |-> prompt,
     initialized |-> FALSE,
     messages |-> <<>>,
     totalTokens |-> 0,
     totalInputTokens |-> 0,
     totalOutputTokens |-> 0,
     systemPrompt |-> "undefined",
     result |-> NoResult]

ChatMessage(role, content) == [role |-> role, content |-> content]

\* openaiPlugin.initialize
openaiInitialize(context) ==
    [context EXCEPT
        !.initialized = TRUE,
        !.messages = IF context.pluginConfig # "undefined"
                     THEN <<ChatMessage("system", context.pluginConfig)>> ELSE <<>>,
        !.totalTokens = 0,
        !.systemPrompt = context.pluginConfig,
        !.result = [hook |-> "initialize"]]

\* openaiPlugin.beforeSend
openaiBeforeSend(context, message) ==
    [context EXCEPT
        !.messages = Append(@, ChatMessage("user", message)),
        !.result = [hook |-> "beforeSend", message |-> message, systemPrompt |-> "undefined"]]

\* openaiPlugin.afterReceive
openaiAfterReceive(context, response) ==
    [context EXCEPT
        !.messages = Append(@, ChatMessage("assistant", response.content)),
        !.totalTokens = IF response.tokenUsage /\ response.usage # 0
                        THEN @ + response.usage ELSE @,
        !.result = [hook |-> "afterReceive", content |-> response.content,
                    totalTokens |-> IF response.tokenUsage /\ response.usage # 0
                                    THEN response.usage ELSE 0]]

\* openaiPlugin.onDisconnect
openaiOnDisconnect(context) ==
    [context EXCEPT !.messages = <<>>, !.totalTokens = 0,
                    !.result = [hook |-> "onDisconnect"]]

\* anthropicPlugin.initialize
anthropicInitialize(context) ==
    [context EXCEPT
        !.initialized = TRUE,
        !.messages = <<>>,
        !.totalInputTokens = 0,
        !.totalOutputTokens = 0,
        !.systemPrompt = context.pluginConfig,
        !.result = [hook |-> "initialize"]]

\* anthropicPlugin.beforeSend: a user entry at the end of the history is
\* replaced, else the message is appended
anthropicBeforeSend(context, message) ==
    [context EXCEPT
        !.messages =
            IF @ # <<>> /\ @[Len(@)].role = "user"
            THEN [@ EXCEPT ![Len(@)] = ChatMessage("user", message)]
            ELSE Append(@, ChatMessage("user", message)),
        !.result = [hook |-> "beforeSend", message |-> message,
                    systemPrompt |-> context.systemPrompt]]

\* the content anthropicPlugin.afterReceive extracts
anthropicContent(response) ==
    IF response.text # "none" THEN response.text ELSE response.content

\* anthropicPlugin.afterReceive
anthropicAfterReceive(context, response) ==
    [context EXCEPT
        !.messages = Append(@, ChatMessage("assistant", anthropicContent(response))),
        !.totalInputTokens = @ + response.usage,
        !.totalOutputTokens = @ + response.usage,
        !.result = [hook |-> "afterReceive", content |-> anthropicContent(response),
                    totalTokens |-> response.usage + response.usage]]

\* anthropicPlugin.onDisconnect
anthropicOnDisconnect(context) ==
    [context EXCEPT !.messages = <<>>, !.totalInputTokens = 0, !.totalOutputTokens = 0,
                    !.result = [hook |-> "onDisconnect"]]

\* the hook of the context's plugin, called with this context
CallHook(context, hook, arg) ==
    IF context.plugin = "openai"
    THEN CASE hook = "initialize" -> openaiInitialize(context)
           [] hook = "beforeSend" -> openaiBeforeSend(context, arg)
           [] hook = "afterReceive" -> openaiAfterReceive(context, arg)
           [] OTHER -> openaiOnDisconnect(context)
    ELSE CASE hook = "initialize" -> anthropicInitialize(context)
           [] hook = "beforeSend" -> anthropicBeforeSend(context, arg)
           [] hook = "afterReceive" -> anthropicAfterReceive(context, arg)
           [] OTHER -> anthropicOnDisconnect(context)

\* a mutant of RunHook: the plugin keeps one conversation history for all
\* sessions (that of session "A") instead of the one in the context passed
RunHookSharedHistory(store, s, hook, arg) ==
    [store EXCEPT ![s] =
        CallHook([store[s] EXCEPT !.messages = store["A"].messages], hook, arg)]

\* a hook called for session s in a process whose PluginContext objects are
\* store: the hook reaches the context it is passed and nothing else
RunHook(store, s, hook, arg) ==
    [store EXCEPT ![s] = CallHook(store[s], hook, arg)]

\* whether the hook keeps the model within its bounds
HookInBounds(context, hook, arg) ==
    /\ Len(CallHook(context, hook, arg).messages) <= MaxHistory
    /\ CallHook(context, hook, arg).totalTokens <= MaxTokens
    /\ CallHook(context, hook, arg).totalInputTokens <= MaxTokens

\* session s calls a hook; the same call is made in the run in which
\* session "B" is the only session
HookStep(s, hook, arg) ==
    /\ HookInBounds(contexts[s], hook, arg)
    /\ contexts' = RunHook(contexts, s, hook, arg)
    /\ solo' = IF s = "B" THEN RunHook(solo, s, hook, arg) ELSE solo

Initialize(s) ==
    /\ ~contexts[s].initialized
    /\ HookStep(s, "initialize", "none")
    /\ UNCHANGED inFlightSends
    /\ UNCHANGED nonHookVars

\* the pipeline dispatches a message of session s: beforeSend, then the
\* connector call is in flight
BeforeSend(s, message) ==
    /\ contexts[s].initialized
    /\ inFlightSends[s] < HookConcurrency
    /\ HookStep(s, "beforeSend", message)
    /\ inFlightSends' = [inFlightSends EXCEPT ![s] = @ + 1]
    /\ UNCHANGED nonHookVars

\* a connector call of session s returned a response: afterReceive
AfterReceive(s, response) ==
    /\ inFlightSends[s] > 0
    /\ HookStep(s, "afterReceive", response)
    /\ inFlightSends' = [inFlightSends EXCEPT ![s] = @ - 1]
    /\ UNCHANGED nonHookVars

\* a connector call of session s failed: no afterReceive for it
SendFails(s) ==
    /\ inFlightSends[s] > 0
    /\ inFlightSends' = [inFlightSends EXCEPT ![s] = @ - 1]
    /\ UNCHANGED <<contexts, solo>>
    /\ UNCHANGED nonHookVars

\* the session ends: onDisconnect
OnDisconnect(s) ==
    /\ contexts[s].initialized
    /\ inFlightSends[s] = 0
    /\ contexts[s].result # [hook |-> "onDisconnect"]
    /\ HookStep(s, "onDisconnect", "none")
    /\ UNCHANGED inFlightSends
    /\ UNCHANGED nonHookVars

NextHooks ==
    \/ \E s \in HookSessions : Initialize(s)
    \/ \E s \in HookSessions, message \in Messages : BeforeSend(s, message)
    \/ \E s \in HookSessions, response \in HookResponses : AfterReceive(s, response)
    \/ \E s \in HookSessions : SendFails(s)
    \/ \E s \in HookSessions : OnDisconnect(s)

(***************************************************************************)
(* Session executor: the concurrency controller and cancellation of one    *)
(* session (spec sections 4.5, 4.6 and 5)                                  *)
(***************************************************************************)
Concurrencies == 1..MaxConcurrency
ErrorPolicies == {"skip", "abort"}
MessageSteps == 1..MaxSteps

\* the connector calls in flight
InFlightSteps == {k \in MessageSteps : stepState[k] = "inFlight"}

\* the message steps the flow walk has not reached yet
QueuedSteps == {k \in 1..stepCount : stepState[k] = "queued"}

\* a mutant of SlotFree: the semaphore admits one call too many
SlotFreeOffByOne == Cardinality(InFlightSteps) <= concurrency

\* the semaphore, sized to the scenario's concurrency, has a free slot
SlotFree == Cardinality(InFlightSteps) < concurrency

\* the cancellation token is checked before each new step dispatch; after
\* an abort nothing is dispatched either
MayDispatch == execStatus = "RUNNING" /\ ~cancelRequested /\ ~aborted

\* the flow walk dispatches message step k, the first one still queued
Dispatch(k) ==
    /\ MayDispatch
    /\ k \in QueuedSteps
    /\ \A j \in QueuedSteps : k <= j
    /\ SlotFree
    /\ stepState' = [stepState EXCEPT ![k] = "inFlight"]
    /\ dispatches' = [dispatches EXCEPT ![k] = @ + 1]
    /\ UNCHANGED <<stepCount, concurrency, onError, cancelRequested, inFlightAtCancel,
                   aborted, execStatus>>
    /\ UNCHANGED nonExecVars

\* the connector call of step k ends, as a response or as a final failure;
\* under the abort policy a failure ends the dispatching
Complete(k, ok) ==
    /\ execStatus = "RUNNING"
    /\ k \in InFlightSteps
    /\ stepState' = [stepState EXCEPT ![k] = IF ok THEN "succeeded" ELSE "failed"]
    /\ aborted' = (aborted \/ (~ok /\ onError = "abort"))
    /\ UNCHANGED <<stepCount, concurrency, onError, dispatches, cancelRequested,
                   inFlightAtCancel, execStatus>>
    /\ UNCHANGED nonExecVars

\* an external cancel request for the running session
RequestCancel ==
    /\ execStatus = "RUNNING"
    /\ ~cancelRequested
    /\ cancelRequested' = TRUE
    /\ inFlightAtCancel' = InFlightSteps
    /\ UNCHANGED <<stepCount, concurrency, onError, stepState, dispatches, aborted,
                   execStatus>>
    /\ UNCHANGED nonExecVars

\* a mutant of TerminalStatus: a cancel request is not looked at once the
\* last call has ended
TerminalStatusIgnoresCancel == IF aborted THEN "FAILED" ELSE "COMPLETED"

\* the terminal status the executor sets: CANCELLED once a cancel request
\* was observed, never COMPLETED or FAILED
TerminalStatus ==
    IF cancelRequested THEN "CANCELLED"
    ELSE IF aborted THEN "FAILED"
    ELSE "COMPLETED"

\* the executor finalizes: nothing is in flight and nothing more is to be
\* dispatched
Finalize ==
    /\ execStatus = "RUNNING"
    /\ InFlightSteps = {}
    /\ cancelRequested \/ aborted \/ QueuedSteps = {}
    /\ execStatus' = TerminalStatus
    /\ UNCHANGED <<stepCount, concurrency, onError, stepState, dispatches, cancelRequested,
                   inFlightAtCancel, aborted>>
    /\ UNCHANGED nonExecVars

NextExec ==
    \/ \E k \in MessageSteps : Dispatch(k)
    \/ \E k \in MessageSteps, ok \in BOOLEAN : Complete(k, ok)
    \/ RequestCancel
    \/ Finalize

(***************************************************************************)
(* PluginLoader.validatePluginConfig                                       *)
(***************************************************************************)
ConfigKeys == {"k1", "k2"}
FieldTypes == {"string", "number", "boolean", "select", "json"}

\* the values of a config key: undefined (key absent), null, "", a string
\* that is neither an option nor JSON, the string of the declared option,
\* a string that JSON.parse accepts, a number, NaN, a boolean, an object
ConfigValues ==
    {"undefined", "null", "empty", "text", "option", "jsonText", "number", "NaN",
     "boolean", "object"}

\* typeof value
typeof(value) ==
    CASE value \in {"empty", "text", "option", "jsonText"} -> "string"
      [] value \in {"number", "NaN"} -> "number"
      [] value = "boolean" -> "boolean"
      [] value = "undefined" -> "undefined"
      [] OTHER -> "object"

\* JSON.parse(value) returns for the string value
JSONParses(value) == value = "jsonText"

\* PluginConfigField: options is optional and only declared for select
PluginConfigField ==
    {f \in [key : ConfigKeys, type : FieldTypes, required : BOOLEAN, options : BOOLEAN] :
        f.options => f.type = "select"}

\* field.options.some((o) => o.value === value)
InOptions(value) == value = "option"

\* the switch (field.type) of validatePluginConfig: TRUE when it pushes
TypeError(field, value) ==
    CASE field.type = "string" -> typeof(value) # "string"
      [] field.type = "number" -> typeof(value) # "number" \/ value = "NaN"
      [] field.type = "boolean" -> typeof(value) # "boolean"
      [] field.type = "select" -> field.options /\ ~InOptions(value)
      [] OTHER -> typeof(value) = "string" /\ ~JSONParses(value)

IsMissing(value) == value \in {"undefined", "null", "empty"}

\* a mutant of FieldErrors: the required check does not continue, so the
\* type check runs on the missing value too
FieldErrorsNoContinue(field, value) ==
    (IF field.required /\ IsMissing(value)
     THEN <<[key |-> field.key, error |-> "required"]>> ELSE <<>>)
    \o (IF value \notin {"undefined", "null"} /\ TypeError(field, value)
        THEN <<[key |-> field.key, error |-> field.type]>> ELSE <<>>)

\* one round of the loop over the schema: what it pushes on errors
FieldErrors(field, value) ==
    IF field.required /\ IsMissing(value)
    THEN <<[key |-> field.key, error |-> "required"]>>
    ELSE IF value \in {"undefined", "null"} THEN <<>>
    ELSE IF TypeError(field, value) THEN <<[key |-> field.key, error |-> field.type]>>
    ELSE <<>>

\* for (const field of schema) { ... }
RECURSIVE SchemaErrors(_, _)
SchemaErrors(schema, configObj) ==
    IF schema = <<>> THEN <<>>
    ELSE FieldErrors(Head(schema), configObj[Head(schema).key])
         \o SchemaErrors(Tail(schema), configObj)

validatePluginConfig(plugin, config) ==
    IF ~plugin.registered THEN <<[key |-> "none", error |-> "not registered"]>>
    ELSE IF plugin.configSchema = <<>> THEN <<>>
    ELSE IF ~config.isObject THEN <<[key |-> "none", error |-> "not an object"]>>
    ELSE SchemaErrors(plugin.configSchema, config.obj)

NotValidated == <<[key |-> "none", error |-> "not called"]>>

\* PluginLoader.validatePluginConfig(pluginId, config) is called
ValidatePluginConfig ==
    /\ valErrors = NotValidated
    /\ valErrors' = validatePluginConfig(valPlugin, valConfig)
    /\ UNCHANGED <<valPlugin, valConfig>>
    /\ UNCHANGED nonValVars

NextValidate == ValidatePluginConfig

(***************************************************************************)
(* MetricsCollector: repetition detection                                  *)
(***************************************************************************)
maxPreviousResponses == 10

\* strings are sequences of characters; "A" is the upper case of "a", " "
\* is white space
Alphabet == {"a", "b", "A", " "}
Strings == SeqsUpTo(Alphabet, MaxStrLen)

\* scores are fractions of denominator at most MaxStrLen: a score is kept
\* as its multiple of ScoreScale, which every such denominator divides
RECURSIVE Factorial(_)
Factorial(n) == IF n <= 1 THEN 1 ELSE n * Factorial(n - 1)
ScoreScale == Factorial(MaxStrLen)

\* String.prototype.toLowerCase
toLowerCase(str) == [i \in DOMAIN str |-> IF str[i] = "A" THEN "a" ELSE str[i]]

\* String.prototype.trim
RECURSIVE trimStart(_)
trimStart(str) ==
    IF str # <<>> /\ Head(str) = " " THEN trimStart(Tail(str)) ELSE str

RECURSIVE trimEnd(_)
trimEnd(str) ==
    IF str # <<>> /\ str[Len(str)] = " " THEN trimEnd(SubSeq(str, 1, Len(str) - 1)) ELSE str

trim(str) == trimEnd(trimStart(str))

Min3(a, b, c) ==
    IF a <= b /\ a <= c THEN a ELSE IF b <= c THEN b ELSE c

\* a mutant of levenshteinDistance: a deletion costs 2
levenshteinDeletionCostsTwo(str1, str2) ==
    LET m == Len(str1)
        n == Len(str2)
        dp[i \in 0..m, j \in 0..n] ==
            IF i = 0 THEN j
            ELSE IF j = 0 THEN 2 * i
            ELSE IF str1[i] = str2[j] THEN dp[i - 1, j - 1]
            ELSE Min3(dp[i - 1, j] + 2, dp[i, j - 1] + 1, dp[i - 1, j - 1] + 1)
    IN dp[m, n]

\* levenshteinDistance: the dp table, first row and column, then row by row
levenshteinDistance(str1, str2) ==
    LET m == Len(str1)
        n == Len(str2)
        dp[i \in 0..m, j \in 0..n] ==
            IF j = 0 THEN i
            ELSE IF i = 0 THEN j
            ELSE IF str1[i] = str2[j] THEN dp[i - 1, j - 1]
            ELSE Min3(dp[i - 1, j] + 1, dp[i, j - 1] + 1, dp[i - 1, j - 1] + 1)
    IN dp[m, n]

Max(a, b) == IF a >= b THEN a ELSE b

\* calculateSimilarity: 1 - distance / maxLength, as a multiple of 1/ScoreScale
calculateSimilarity(str1, str2) ==
    LET s1 == trim(toLowerCase(str1))
        s2 == trim(toLowerCase(str2))
    IN IF s1 = s2 THEN ScoreScale
       ELSE IF Len(s1) = 0 \/ Len(s2) = 0 THEN 0
       ELSE ScoreScale
            - (levenshteinDistance(s1, s2) * ScoreScale) \div Max(Len(s1), Len(s2))

\* calculateRepetitionScore: the loop over this.previousResponses
RECURSIVE maxSimilarity(_, _, _)
maxSimilarity(response, previous, soFar) ==
    IF previous = <<>> THEN soFar
    ELSE maxSimilarity(response, Tail(previous),
                       Max(soFar, calculateSimilarity(response, Head(previous))))

calculateRepetitionScore(response) ==
    IF Len(previousResponses) = 0 THEN 0
    ELSE maxSimilarity(response, previousResponses, 0)

NoScore == 0 - 1

\* the responses that sessions record
RecordedResponses == {<<"a">>, <<"a", "b">>}

\* a mutant of Retained: the oldest response is dropped one call too late
RetainedOneMore(responses) ==
    IF Len(responses) > maxPreviousResponses + 1 THEN Tail(responses) ELSE responses

\* if (this.previousResponses.length > this.maxPreviousResponses) shift()
Retained(responses) ==
    IF Len(responses) > maxPreviousResponses THEN Tail(responses) ELSE responses

\* MetricsCollector.recordMessage: the metric has no repetitionScore
recordMessage(m) ==
    /\ Len(metrics) < MaxRecords
    /\ Cardinality({i \in DOMAIN metrics : metrics[i].repetitionScore = NoScore}) < MaxPlain
    /\ metrics' = Append(metrics, [m EXCEPT !.repetitionScore = NoScore])
    /\ UNCHANGED <<previousResponses, responsesSeen, simArgs, simResult>>
    /\ UNCHANGED nonMetricVars

\* MetricsCollector.recordWithResponse
recordWithResponse(m, responseContent) ==
    /\ Len(metrics) < MaxRecords
    /\ metrics' = Append(metrics,
           [m EXCEPT !.repetitionScore = calculateRepetitionScore(responseContent)])
    /\ previousResponses' = Retained(Append(previousResponses, responseContent))
    /\ responsesSeen' = Append(responsesSeen, responseContent)
    /\ UNCHANGED <<simArgs, simResult>>
    /\ UNCHANGED nonMetricVars

\* the metric a call passes in
RecordedMetric == [success |-> TRUE, responseTimeMs |-> 1, repetitionScore |-> NoScore]

NextRepetition ==
    \/ recordMessage(RecordedMetric)
    \/ \E responseContent \in RecordedResponses :
           recordWithResponse(RecordedMetric, responseContent)

NoSimilarity == [ab |-> NoScore, ba |-> NoScore, aa |-> NoScore]

\* calculateSimilarity is called for the two strings, both ways round, and
\* for the first string with itself
CalculateSimilarity ==
    /\ simResult = NoSimilarity
    /\ simResult' = [ab |-> calculateSimilarity(simArgs[1], simArgs[2]),
                     ba |-> calculateSimilarity(simArgs[2], simArgs[1]),
                     aa |-> calculateSimilarity(simArgs[1], simArgs[1])]
    /\ UNCHANGED <<metrics, previousResponses, responsesSeen, simArgs>>
    /\ UNCHANGED nonMetricVars

NextSimilarity == CalculateSimilarity

(***************************************************************************)
(* Response-time percentiles: MetricsCollector.getSummary and the          *)
(* metrics-aggregation worker                                              *)
(***************************************************************************)
\* the stable merge of two ascending lists under the comparator a - b: an
\* element of the left list goes behind the smaller ones of the right list,
\* one of the right list behind the not-larger ones of the left list
mergeNumbers(left, right) ==
    LET leftAt(i) == i + Cardinality({j \in DOMAIN right : right[j] - left[i] < 0})
        rightAt(j) == j + Cardinality({i \in DOMAIN left : left[i] - right[j] <= 0})
    IN [k \in 1..(Len(left) + Len(right)) |->
           IF \E i \in DOMAIN left : leftAt(i) = k
           THEN left[CHOOSE i \in DOMAIN left : leftAt(i) = k]
           ELSE right[CHOOSE j \in DOMAIN right : rightAt(j) = k]]

\* responseTimes.sort((a, b) => a - b): the engine's stable merge sort
RECURSIVE sortNumbers(_)
sortNumbers(list) ==
    IF Len(list) <= 1 THEN list
    ELSE LET half == Len(list) \div 2
         IN mergeNumbers(sortNumbers(SubSeq(list, 1, half)),
                         sortNumbers(SubSeq(list, half + 1, Len(list))))

\* a mutant of PercentileIndex: Math.ceil in place of Math.floor
PercentileIndexCeil(n, percent) == (n * percent + 99) \div 100

\* Math.floor(responseTimes.length * 0.5 | 0.95 | 0.99), for the percentile
\* given in hundredths; the double product n * 0.95 (or 0.99) rounds to the
\* integer whenever the exact product is one, so its floor is this quotient
PercentileIndex(n, percent) == (n * percent) \div 100

\* responseTimes.length > 0 ? responseTimes[Math.floor(length * p)] : 0;
\* an index past the end reads undefined
Percentile(responseTimes, percent) ==
    IF Len(responseTimes) = 0 THEN 0
    ELSE IF PercentileIndex(Len(responseTimes), percent) + 1 > Len(responseTimes)
         THEN NoScore
         ELSE responseTimes[PercentileIndex(Len(responseTimes), percent) + 1]

Percentiles(responseTimes) ==
    [called |-> TRUE,
     p50 |-> Percentile(responseTimes, 50),
     p95 |-> Percentile(responseTimes, 95),
     p99 |-> Percentile(responseTimes, 99)]

NoSummary == [called |-> FALSE, p50 |-> 0, p95 |-> 0, p99 |-> 0]

\* successfulMetrics.map((m) => m.responseTimeMs)
SuccessfulTimes(ms) ==
    LET successful == SelectSeq(ms, LAMBDA m : m.success)
    IN [i \in DOMAIN successful |-> successful[i].responseTimeMs]

\* sentMessages.reduce((sum, m) => sum + (m.responseTimeMs || 0), 0)
RECURSIVE SumTimes(_)
SumTimes(sent) ==
    IF sent = <<>> THEN 0 ELSE Head(sent).responseTimeMs + SumTimes(Tail(sent))

\* Math.round(x * 100) / 100 of x = numerator / denominator, in hundredths
RoundedHundredths(numerator, denominator) ==
    (2 * numerator * 100 + denominator) \div (2 * denominator)

\* the value of 0 / 0: not a number, here a value that no average (which is
\* at least 0) equals
NaN == 0 - 1

\* Math.round(avgResponseTimeMs * 100) / 100 of the sum of the successful
\* metrics' times over their number, in hundredths; 0 / 0 is NaN, and
\* Math.round(NaN * 100) / 100 is NaN
AverageOfSuccessful(ms) ==
    LET successfulMetrics == SelectSeq(ms, LAMBDA m : m.success)
    IN IF Len(successfulMetrics) = 0 THEN NaN
       ELSE RoundedHundredths(SumTimes(successfulMetrics), Len(successfulMetrics))

\* MetricsCollector.getSummary: the counts, the average and the percentile
\* fields of its result (null: not called)
getSummary(ms) ==
    IF Len(ms) = 0 THEN NoSummary
    ELSE Percentiles(sortNumbers(SuccessfulTimes(ms)))
         @@ [totalMessages |-> Len(ms),
             successfulMessages |-> Len(SelectSeq(ms, LAMBDA m : m.success)),
             failedMessages |-> Len(SelectSeq(ms, LAMBDA m : ~m.success)),
             avgResponseTimeMs |-> AverageOfSuccessful(ms)]

\* sentMessages.map((m) => m.responseTimeMs || 0).filter((t) => t > 0)
PositiveTimes(sent) ==
    LET timed == SelectSeq(sent, LAMBDA m : m.responseTimeMs > 0)
    IN [i \in DOMAIN timed |-> timed[i].responseTimeMs]

\* createMetricsWorker: p50, p95 and p99 of the summary it writes
workerPercentiles(sent) == Percentiles(sortNumbers(PositiveTimes(sent)))

GetSummary ==
    /\ ~summary.called
    /\ Len(metrics) > 0
    /\ summary' = getSummary(metrics)
    /\ UNCHANGED <<sentMessages, workerSummary>>
    /\ UNCHANGED nonPercentileVars

AggregateResponseTimes ==
    /\ ~workerSummary.called
    /\ Len(sentMessages) > 0
    /\ workerSummary' = workerPercentiles(sentMessages)
    /\ UNCHANGED <<sentMessages, summary>>
    /\ UNCHANGED nonPercentileVars

NextPercentiles ==
    \/ GetSummary
    \/ AggregateResponseTimes

\* the response times of the samples: 0 is a metric without a response time
TimeValues == {0, 10, 20}

\* n response times in descending order, 10 apart
Ramp(n) == [i \in 1..n |-> 10 * (n - i + 1)]

Samples == SeqsUpTo(TimeValues, MaxSample) \cup {Ramp(n) : n \in 1..MaxRamp}

\* the metrics of a collector, and the sent entries of a message log, with
\* these response times; the one at index failedAt (if any) failed
SampleMetrics(sample, failedAt) ==
    [i \in DOMAIN sample |->
        [success |-> i # failedAt, responseTimeMs |-> sample[i], repetitionScore |-> NoScore]]

(***************************************************************************)
(* Metrics-aggregation worker: the job handler, run once per delivery      *)
(***************************************************************************)
\* messages.filter((m) => m.direction === "sent")
SentOf(messages) == SelectSeq(messages, LAMBDA m : m.direction = "sent")

\* aggregatedMetrics, as computed from the messages of the log
aggregatedMetrics(messages) ==
    LET sent == SentOf(messages)
        messageCount == Len(sent)
        errorCount == Len(SelectSeq(sent, LAMBDA m : ~m.success))
        responseTimes == sortNumbers(PositiveTimes(sent))
    IN [messageCount |-> messageCount,
        avgResponseTimeMs |-> IF messageCount > 0
                              THEN RoundedHundredths(SumTimes(sent), messageCount) ELSE 0,
        errorCount |-> errorCount,
        errorRate |-> IF messageCount > 0
                      THEN RoundedHundredths(errorCount * 100, messageCount) ELSE 0,
        p50ResponseTimeMs |-> Percentile(responseTimes, 50),
        p95ResponseTimeMs |-> Percentile(responseTimes, 95),
        p99ResponseTimeMs |-> Percentile(responseTimes, 99),
        minResponseTimeMs |-> IF Len(responseTimes) > 0 THEN responseTimes[1] ELSE 0,
        maxResponseTimeMs |-> IF Len(responseTimes) > 0
                              THEN responseTimes[Len(responseTimes)] ELSE 0]

\* session.summaryMetrics before any aggregation
NoMetrics == [messageCount |-> 0 - 1]

\* a mutant of UpdateSummary: the counts are added to the stored ones
UpdateSummaryAdds(stored, aggregated) ==
    IF stored = NoMetrics THEN aggregated
    ELSE [aggregated EXCEPT !.messageCount = @ + stored.messageCount]

\* prisma.session.update({where: {id}, data: {summaryMetrics: aggregatedMetrics}})
UpdateSummary(stored, aggregated) == aggregated

\* one delivery of the job, before a worker takes it
QueuedRun == [pc |-> "queued", messages |-> <<>>, result |-> "none"]

\* the handler up to fs.readFile: the session is fetched; without a log path
\* the handler returns {success: false, reason: "No log path"}
FetchSession(w) ==
    /\ w \in DOMAIN jobRuns
    /\ jobRuns[w].pc = "queued"
    /\ jobRuns' = [jobRuns EXCEPT ![w] =
           IF sessionLogPath THEN [@ EXCEPT !.pc = "read"]
           ELSE [@ EXCEPT !.pc = "done", !.result = "No log path"]]
    /\ UNCHANGED <<sessionLogPath, messagesJsonl, sessionSummary, summaryWrites>>
    /\ UNCHANGED nonAggregationVars

\* fs.readFile and the parse of the lines: on failure the handler returns
\* "Failed to read messages", on an empty log "No messages"
ReadMessages(w, readable) ==
    /\ w \in DOMAIN jobRuns
    /\ jobRuns[w].pc = "read"
    /\ jobRuns' = [jobRuns EXCEPT ![w] =
           IF ~readable THEN [@ EXCEPT !.pc = "done", !.result = "Failed to read messages"]
           ELSE IF Len(messagesJsonl) = 0
                THEN [@ EXCEPT !.pc = "done", !.result = "No messages"]
                ELSE [@ EXCEPT !.pc = "update", !.messages = messagesJsonl]]
    /\ UNCHANGED <<sessionLogPath, messagesJsonl, sessionSummary, summaryWrites>>
    /\ UNCHANGED nonAggregationVars

\* the aggregation and await prisma.session.update; the handler returns
\* {success: true, ...}
WriteSummary(w) ==
    /\ w \in DOMAIN jobRuns
    /\ jobRuns[w].pc = "update"
    /\ sessionSummary' = UpdateSummary(sessionSummary, aggregatedMetrics(jobRuns[w].messages))
    /\ summaryWrites' = summaryWrites + 1
    /\ jobRuns' = [jobRuns EXCEPT ![w] = [@ EXCEPT !.pc = "done", !.result = "success"]]
    /\ UNCHANGED <<sessionLogPath, messagesJsonl>>
    /\ UNCHANGED nonAggregationVars

NextAggregation ==
    \/ \E w \in 1..MaxDeliveries : FetchSession(w)
    \/ \E w \in 1..MaxDeliveries, readable \in BOOLEAN : ReadMessages(w, readable)
    \/ \E w \in 1..MaxDeliveries : WriteSummary(w)

\* messages.jsonl of a session whose sends took these times: each sent
\* entry is followed by the received entry of its response
RECURSIVE MessageLog(_)
MessageLog(sent) ==
    IF sent = <<>> THEN <<>>
    ELSE <<[direction |-> "sent", responseTimeMs |-> Head(sent).responseTimeMs,
            success |-> Head(sent).success],
           [direction |-> "received", responseTimeMs |-> 0, success |-> TRUE]>>
         \o MessageLog(Tail(sent))

\* no aggregation job delivered
NoDeliveries ==
    /\ sessionLogPath = FALSE
    /\ messagesJsonl = <<>>
    /\ jobRuns = <<>>
    /\ sessionSummary = NoMetrics
    /\ summaryWrites = 0

(***************************************************************************)
(* Specifications                                                          *)
(***************************************************************************)
NoGet == [code |-> 0, status |-> "none", progress |-> 0]

InitBatch ==
    /\ requests = <<>>
    /\ sessions = <<>>
    /\ sessionJobs = <<>>
    /\ metricsJobs = {}
    /\ lastGet = [b \in 1..MaxRequests |-> NoGet]
    /\ forwardOnly = TRUE

InitPlugins ==
    /\ plugins = <<>>
    /\ compatible = NoCall

\* a connector as its constructor leaves it
NewConnector ==
    /\ client = FALSE
    /\ isConnected = FALSE
    /\ calls = <<>>
    /\ connections = <<>>
    /\ ws = 0
    /\ connectionPromise = 0
    /\ reconnectAttempts = 0
    /\ reconnectTimers = 0
    /\ messageQueue = <<>>
    /\ frames = 0
    /\ fifoSends = <<>>
    /\ fifoFrames = <<>>
    /\ undisturbed = TRUE
    /\ disconnectCalled = FALSE

\* a call of validatePluginConfig for this plugin entry and this config
ValidationOf(plugin, config) ==
    /\ valPlugin = plugin
    /\ valConfig = config
    /\ valErrors = NotValidated

NoPlugin == [registered |-> FALSE, configSchema |-> <<>>]
NoConfig == [isObject |-> FALSE, obj |-> [k \in ConfigKeys |-> "undefined"]]

\* a new MetricsCollector, and calculateSimilarity not yet called
NewCollector(str1, str2) ==
    /\ metrics = <<>>
    /\ previousResponses = <<>>
    /\ responsesSeen = <<>>
    /\ simArgs = <<str1, str2>>
    /\ simResult = NoSimilarity

\* no message log read and no summary computed yet
NoAggregation ==
    /\ sentMessages = <<>>
    /\ summary = NoSummary
    /\ workerSummary = NoSummary

\* a session that runs a flow of n message steps
StartedSession(n, c, policy) ==
    /\ stepCount = n
    /\ concurrency = c
    /\ onError = policy
    /\ stepState = [k \in MessageSteps |-> IF k <= n THEN "queued" ELSE "none"]
    /\ dispatches = [k \in MessageSteps |-> 0]
    /\ cancelRequested = FALSE
    /\ inFlightAtCancel = {}
    /\ aborted = FALSE
    /\ execStatus = "RUNNING"

InitHooks ==
    /\ contexts = [s \in HookSessions |-> PluginContext("openai", "undefined")]
    /\ solo = contexts
    /\ inFlightSends = [s \in HookSessions |-> 0]

Init ==
    /\ InitBatch
    /\ InitPlugins
    /\ connector = "none"
    /\ configOk = TRUE
    /\ NewConnector
    /\ InitHooks
    /\ StartedSession(1, 1, "skip")
    /\ ValidationOf(NoPlugin, NoConfig)
    /\ NewCollector(<<>>, <<>>)
    /\ NoAggregation
    /\ NoDeliveries

ConnectorClasses == {"WEBSOCKET", "GRPC", "SSE"}

InitConn ==
    /\ InitBatch
    /\ InitPlugins
    /\ connector \in ConnectorClasses
    /\ configOk \in BOOLEAN
    /\ NewConnector
    /\ InitHooks
    /\ StartedSession(1, 1, "skip")
    /\ ValidationOf(NoPlugin, NoConfig)
    /\ NewCollector(<<>>, <<>>)
    /\ NoAggregation
    /\ NoDeliveries

Next ==
    \/ \E body \in Bodies : POST(body)
    \/ \E r \in 1..MaxRequests, i \in 1..MaxTargetIds : CreateSession(r, i)
    \/ \E r \in 1..MaxRequests, i \in 1..MaxTargetIds : AddSessionJob(r, i)
    \/ \E r \in 1..MaxRequests, i \in 1..MaxTargetIds : UpdateQueued(r, i)
    \/ \E r \in 1..MaxRequests, i \in 1..MaxTargetIds : TaskFails(r, i)
    \/ \E r \in 1..MaxRequests : Respond202(r)
    \/ \E j \in 1..(MaxRequests * MaxTargetIds) : SessionWorkerStart(j)
    \/ \E j \in 1..(MaxRequests * MaxTargetIds), o \in TerminalStatuses, l \in BOOLEAN :
          SessionWorkerFinish(j, o, l)
    \/ \E s \in 1..(MaxRequests * MaxTargetIds), read \in LogReads : MetricsWorker(s, read)
    \/ \E b \in 1..MaxRequests : GET(b)

Spec == Init /\ [][Next]_vars

SpecPlugins == Init /\ [][NextPlugins]_vars

NextConn ==
    \/ NextWS
    \/ NextGrpc
    \/ NextSSE

SpecConn == InitConn /\ [][NextConn]_vars

\* a timer that was started fires, and a callback that ws.send owes is
\* called; nothing makes the remote side answer
TimersFire ==
    \A c \in 1..MaxSends :
        /\ WF_vars(WsSendTimeout(c))
        /\ WF_vars(WsSendError(c))
        /\ WF_vars(SseTimeout(c))

FairSpecConn == InitConn /\ [][NextConn]_vars /\ TimersFire

\* each session gets its own PluginContext, for either plugin and with or
\* without a configured system prompt
InitSessions ==
    /\ InitBatch
    /\ InitPlugins
    /\ connector = "none"
    /\ configOk = TRUE
    /\ NewConnector
    /\ contexts \in [HookSessions -> {PluginContext(p, c) : p \in BuiltinPlugins, c \in SystemPrompts}]
    /\ solo = contexts
    /\ inFlightSends = [s \in HookSessions |-> 0]
    /\ StartedSession(1, 1, "skip")
    /\ ValidationOf(NoPlugin, NoConfig)
    /\ NewCollector(<<>>, <<>>)
    /\ NoAggregation
    /\ NoDeliveries

SpecHooks == InitSessions /\ [][NextHooks]_vars

InitExec ==
    /\ InitBatch
    /\ InitPlugins
    /\ connector = "none"
    /\ configOk = TRUE
    /\ NewConnector
    /\ InitHooks
    /\ \E n \in MessageSteps, c \in Concurrencies, policy \in ErrorPolicies :
           StartedSession(n, c, policy)
    /\ ValidationOf(NoPlugin, NoConfig)
    /\ NewCollector(<<>>, <<>>)
    /\ NoAggregation
    /\ NoDeliveries

\* every connector call ends (each carries its timeout), and the executor
\* goes on dispatching and finalizes
ExecutorRuns ==
    /\ WF_vars(\E k \in MessageSteps : Dispatch(k))
    /\ WF_vars(\E k \in MessageSteps, ok \in BOOLEAN : Complete(k, ok))
    /\ WF_vars(Finalize)

FairSpecExec == InitExec /\ [][NextExec]_vars /\ ExecutorRuns

ValPlugins ==
    {NoPlugin} \cup {[registered |-> TRUE, configSchema |-> schema] :
                        schema \in SeqsUpTo(PluginConfigField, MaxFields)}

ValConfigs ==
    {NoConfig} \cup {[isObject |-> TRUE, obj |-> obj] : obj \in [ConfigKeys -> ConfigValues]}

InitValidate ==
    /\ InitBatch
    /\ InitPlugins
    /\ connector = "none"
    /\ configOk = TRUE
    /\ NewConnector
    /\ InitHooks
    /\ StartedSession(1, 1, "skip")
    /\ \E plugin \in ValPlugins, config \in ValConfigs : ValidationOf(plugin, config)
    /\ NewCollector(<<>>, <<>>)
    /\ NoAggregation
    /\ NoDeliveries

SpecValidate == InitValidate /\ [][NextValidate]_vars

SpecRepetition == Init /\ [][NextRepetition]_vars

InitSimilarity ==
    /\ InitBatch
    /\ InitPlugins
    /\ connector = "none"
    /\ configOk = TRUE
    /\ NewConnector
    /\ InitHooks
    /\ StartedSession(1, 1, "skip")
    /\ ValidationOf(NoPlugin, NoConfig)
    /\ \E str1 \in Strings, str2 \in Strings : NewCollector(str1, str2)
    /\ NoAggregation
    /\ NoDeliveries

SpecSimilarity == InitSimilarity /\ [][NextSimilarity]_vars

InitPercentiles ==
    /\ InitBatch
    /\ InitPlugins
    /\ connector = "none"
    /\ configOk = TRUE
    /\ NewConnector
    /\ InitHooks
    /\ StartedSession(1, 1, "skip")
    /\ ValidationOf(NoPlugin, NoConfig)
    /\ previousResponses = <<>>
    /\ responsesSeen = <<>>
    /\ simArgs = <<<<>>, <<>>>>
    /\ simResult = NoSimilarity
    /\ \E sample \in Samples, failedAt \in 0..1 :
           /\ metrics = SampleMetrics(sample, failedAt)
           /\ sentMessages = SampleMetrics(sample, failedAt)
    /\ summary = NoSummary
    /\ workerSummary = NoSummary
    /\ NoDeliveries

SpecPercentiles == InitPercentiles /\ [][NextPercentiles]_vars

InitWS == InitConn /\ connector = "WEBSOCKET"

SpecWS == InitWS /\ [][NextWS]_vars

\* a WebSocket connector whose first connection attempt and the n - 1
\* reconnections after it have all failed: the n-th reconnection is
\* scheduled; of the sockets only the last one is kept, the earlier ones
\* are closed and their timers have fired
AfterFailures(n, timer) ==
    /\ client = FALSE
    /\ isConnected = FALSE
    /\ calls = <<>>
    /\ connections = IF n = 0 THEN <<>>
                     ELSE <<[socket |-> "closed", promise |-> "rejected", timer |-> timer]>>
    /\ ws = IF n = 0 THEN 0 ELSE 1
    /\ connectionPromise = IF n = 0 THEN 0 ELSE 1
    /\ reconnectAttempts = n
    /\ reconnectTimers = IF n = 0 THEN 0 ELSE 1
    /\ messageQueue = <<>>
    /\ frames = 0
    /\ fifoSends = <<>>
    /\ fifoFrames = <<>>
    /\ undisturbed = (n = 0)
    /\ disconnectCalled = FALSE

InitReconnect ==
    /\ InitBatch
    /\ InitPlugins
    /\ connector = "WEBSOCKET"
    /\ configOk = TRUE
    /\ \E n \in 0..(MAX_RECONNECT_ATTEMPTS - 1), timer \in BOOLEAN :
           (n = 0 => timer) /\ AfterFailures(n, timer)
    /\ InitHooks
    /\ StartedSession(1, 1, "skip")
    /\ ValidationOf(NoPlugin, NoConfig)
    /\ NewCollector(<<>>, <<>>)
    /\ NoAggregation
    /\ NoDeliveries

SpecReconnect == InitReconnect /\ [][NextReconnect]_vars

\* the job of a session with or without a log path, delivered MaxDeliveries
\* times over one message log
InitAggregation ==
    /\ InitBatch
    /\ InitPlugins
    /\ connector = "none"
    /\ configOk = TRUE
    /\ NewConnector
    /\ InitHooks
    /\ StartedSession(1, 1, "skip")
    /\ ValidationOf(NoPlugin, NoConfig)
    /\ NewCollector(<<>>, <<>>)
    /\ NoAggregation
    /\ sessionLogPath \in BOOLEAN
    /\ \E sample \in SeqsUpTo(TimeValues, MaxSample), failedAt \in 0..1 :
           messagesJsonl = MessageLog(SampleMetrics(sample, failedAt))
    /\ jobRuns = [w \in 1..MaxDeliveries |-> QueuedRun]
    /\ sessionSummary = NoMetrics
    /\ summaryWrites = 0

SpecAggregation == InitAggregation /\ [][NextAggregation]_vars

InitSSE == InitConn /\ connector = "SSE"

SpecSSE == InitSSE /\ [][NextSSE]_vars

(***************************************************************************)
(* Claims about the batch subsystem                                        *)
(***************************************************************************)
\* the sessions the tasks of request r have created so far
CreatedBy(r) ==
    {requests[r].tasks[i].sid : i \in DOMAIN requests[r].tasks} \ {0}

JobsOf(s) == {j \in DOMAIN sessionJobs : sessionJobs[j].sessionId = s}

\* C1: the stored status of every session only moves forward along
\* PENDING -> QUEUED -> RUNNING -> {COMPLETED, FAILED, CANCELLED}; it is never
\* set back to an earlier status and a terminal status is never left, in
\* every interleaving of the admission steps with the worker.
C1_StatusOnlyMovesForward ==
    [][\A s \in DOMAIN sessions :
          /\ StatusRank(sessions'[s].status) >= StatusRank(sessions[s].status)
          /\ sessions[s].status \in TerminalStatuses
                => sessions'[s].status = sessions[s].status]_vars

\* C7: GET /api/execute/batch/{batchId} answers status "completed" only if
\* every member session of the batch has status COMPLETED.
C7_CompletedOnlyIfAllSucceeded ==
    [][\A b \in 1..MaxRequests :
          (GET(b) /\ lastGet'[b].status = "completed")
              => \A i \in DOMAIN members(b) : members(b)[i] = "COMPLETED"]_vars

\* C8: a POST answered 202 has created exactly one session per requested
\* target, enqueued exactly one job per created session, and stored its
\* batchId on every session it created.
C8_OneSessionPerTarget ==
    \A r \in DOMAIN requests :
        requests[r].response = 202 =>
            /\ \A t \in Range(requests[r].body.targetIds) :
                   Cardinality({s \in CreatedBy(r) : sessions[s].targetId = t}) = 1
            /\ \A s \in CreatedBy(r) :
                   /\ Cardinality(JobsOf(s)) = 1
                   /\ sessions[s].batchId = requests[r].batchId

\* C9: in a batch requested with mode sequential no member session is
\* enqueued or started before the previous member (in targetIds order) has
\* reached a terminal status.
C9_SequentialRunsOneAtATime ==
    \A r \in DOMAIN requests :
        requests[r].body.mode = "sequential" =>
            \A i, j \in DOMAIN requests[r].tasks :
                (i < j /\ JobsOf(requests[r].tasks[j].sid) # {}) =>
                    /\ requests[r].tasks[i].sid # 0
                    /\ sessions[requests[r].tasks[i].sid].status \in TerminalStatuses

\* C10: once a session is in a terminal status no component writes any of
\* its attributes again (neither the batch admission route nor the metrics
\* aggregation worker).
C10_TerminalSessionImmutable ==
    [][\A s \in DOMAIN sessions :
          sessions[s].status \in TerminalStatuses => sessions'[s] = sessions[s]]_vars

(***************************************************************************)
(* Claims about the PluginLoader                                           *)
(***************************************************************************)
\* the priority a plugin counts with: 100 when it declares none
C4_EffectivePriority(p) == IF p.priority = NoPriority THEN 100 ELSE p.priority

\* C4: getCompatible(T) returns exactly the registered plugins that declare
\* T, each once, in non-decreasing priority where a plugin without a
\* priority counts as 100 (the order in which beforeSend and afterReceive
\* hooks walk the list).
C4_CompatibleSortedByPriority ==
    compatible.connectorType # "none" =>
        LET out == compatible.result
            T == compatible.connectorType
        IN /\ \A i \in DOMAIN out :
                  /\ out[i] \in Range(plugins)
                  /\ T \in out[i].compatibleConnectors
           /\ \A p \in Range(plugins) :
                  T \in p.compatibleConnectors
                      => Cardinality({i \in DOMAIN out : out[i] = p}) = 1
           /\ \A i, j \in DOMAIN out :
                  i < j => C4_EffectivePriority(out[i]) <= C4_EffectivePriority(out[j])

\* three plugins registered as (no priority, 200, 50); the call leaves out
\* the one that does not declare the type and moves the plugin without a
\* priority behind priority 50
C4_Witness ==
    /\ Len(plugins) = 3
    /\ plugins[1].priority = NoPriority
    /\ compatible.connectorType = "WEBSOCKET"
    /\ Len(compatible.result) = 2
    /\ compatible.result[1].priority = 50
    /\ compatible.result[2].priority = NoPriority

(***************************************************************************)
(* Claims about the connectors                                             *)
(***************************************************************************)
\* C2: every sendMessage call that a WebSocket, gRPC or SSE connector took
\* settles in the end, also when the remote side never answers: a call
\* that is pending does not stay pending forever.
C2_EverySendSettles ==
    \A c \in 1..MaxSends : [](CallIs(c, "pending") => <>(~CallIs(c, "pending")))

\* the failures of a send that the remote side causes
RemoteErrors == {"grpc error", "stream error", "parse error", "disconnected", "timeout"}

\* C3: a send that fails because of the remote side (service error, stream
\* error, malformed reply, disconnect, timeout) is not rejected: no call of
\* sendMessage ends as a rejected promise carrying one of these errors.
C3_RemoteFailureNeverRejects ==
    \A c \in DOMAIN calls :
        ~(calls[c].status = "rejected" /\ calls[c].error \in RemoteErrors)

\* the calls of sendMessage whose promise is not settled yet
InFlight == {c \in DOMAIN calls : calls[c].status = "pending"}

\* C6: on a WebSocket connector and on an SSE connector at most one
\* sendMessage call is in flight at any time.
C6_OneSendInFlight ==
    connector \in {"WEBSOCKET", "SSE"} => Cardinality(InFlight) <= 1

\* C5: on a WebSocket connector a well-formed frame that finds the queue
\* non-empty removes the oldest entry and only that one, resolves its call
\* with this frame and touches no other call; so as long as entries leave
\* the queue by frames only (no timeout, send failure, malformed frame or
\* disconnect since the queue was last empty), the i-th send queued is
\* resolved with the i-th frame.
C5_FramesResolveOldestFirst ==
    /\ [](undisturbed =>
            \A i \in 1..Len(fifoFrames) :
                /\ i <= Len(fifoSends)
                /\ calls[fifoSends[i]].status = "resolved"
                /\ calls[fifoSends[i]].success = "true"
                /\ calls[fifoSends[i]].content = <<fifoFrames[i]>>)
    /\ [][\A k \in 1..MaxSockets :
            (WsMessage(k, TRUE) /\ messageQueue # <<>>) =>
                /\ messageQueue' = Tail(messageQueue)
                /\ calls[Head(messageQueue)].status = "pending" =>
                       /\ calls'[Head(messageQueue)].status = "resolved"
                       /\ calls'[Head(messageQueue)].content = <<frames'>>
                /\ \A c \in DOMAIN calls :
                       c # Head(messageQueue) => calls'[c] = calls[c]]_vars

\* two sends were queued one after the other, then two frames arrived, and
\* nothing else took an entry from the queue
C5_Witness ==
    /\ connector = "WEBSOCKET"
    /\ undisturbed
    /\ fifoSends = <<1, 2>>
    /\ fifoFrames = <<1, 2>>
    /\ calls[1].content = <<1>>
    /\ calls[2].content = <<2>>
    /\ messageQueue = <<>>

C12_AnthropicHistoryAlternates ==
    \A s \in HookSessions :
        contexts[s].plugin = "anthropic" =>
            \A i \in 1..(Len(contexts[s].messages) - 1) :
                contexts[s].messages[i].role # contexts[s].messages[i + 1].role

C15_Called ==
    /\ valErrors # NotValidated
    /\ valPlugin.registered
    /\ valPlugin.configSchema # <<>>
    /\ valConfig.isObject

C15_Strings == {"empty", "text", "option", "jsonText"}

\* the declared types as the claim words them: a select value is among the
\* options the field declares (a field that declares none excludes nothing),
\* a json value is a string that parses
C15_TypeHolds(field, value) ==
    CASE field.type = "string" -> value \in C15_Strings
      [] field.type = "number" -> value = "number"
      [] field.type = "boolean" -> value = "boolean"
      [] field.type = "select" -> ~field.options \/ value = "option"
      [] OTHER -> value = "jsonText"

\* the declared types as the code checks them: a json value has to parse
\* only when it is a string, any other value passes
C15_TypeHoldsAmended(field, value) ==
    CASE field.type = "string" -> value \in C15_Strings
      [] field.type = "number" -> value = "number"
      [] field.type = "boolean" -> value = "boolean"
      [] field.type = "select" -> ~field.options \/ value = "option"
      [] OTHER -> value \notin C15_Strings \/ value = "jsonText"

\* a required field without a value, or a value that misses its type
C15_Fails(field, value, TypeHolds(_, _)) ==
    \/ field.required /\ value \in {"undefined", "null", "empty"}
    \/ value \notin {"undefined", "null"} /\ ~TypeHolds(field, value)

\* the errors are one per failing field, in schema order
C15_OnePerFailingField(TypeHolds(_, _)) ==
    LET schema == valPlugin.configSchema
        failing == SelectSeq(schema, LAMBDA f : C15_Fails(f, valConfig.obj[f.key], TypeHolds))
    IN /\ Len(valErrors) = Len(failing)
       /\ \A i \in 1..Len(failing) : valErrors[i].key = failing[i].key
       /\ valErrors = <<>> <=>
              \A i \in 1..Len(schema) :
                  ~C15_Fails(schema[i], valConfig.obj[schema[i].key], TypeHolds)

\* C15 as stated: for a registered plugin with a non-empty schema and an
\* object config, validatePluginConfig returns no error exactly when every
\* required field has a value and every value satisfies its declared type
\* (select: among the declared options; json: a string that parses), with
\* one error per failing field in schema order.
C15_ValidExactlyWhenTypesHold ==
    C15_Called => C15_OnePerFailingField(C15_TypeHolds)

\* C15 as amended: the same, where a json field is checked only when its
\* value is a string (a number, boolean or object in a json field passes);
\* the call changes neither the config nor the registry.
C15_ValidExactlyWhenChecksPass ==
    /\ [](C15_Called => C15_OnePerFailingField(C15_TypeHoldsAmended))
    /\ [][valConfig' = valConfig /\ valPlugin' = valPlugin /\ plugins' = plugins]_vars

\* two fields with different keys: a json field holding an object passes,
\* the second field fails and gives the only error
C15_Witness ==
    /\ C15_Called
    /\ Len(valPlugin.configSchema) = 2
    /\ valPlugin.configSchema[1].key # valPlugin.configSchema[2].key
    /\ valPlugin.configSchema[1].type = "json"
    /\ valConfig.obj[valPlugin.configSchema[1].key] = "object"
    /\ valPlugin.configSchema[2].type = "number"
    /\ valConfig.obj[valPlugin.configSchema[2].key] = "NaN"
    /\ valErrors = <<[key |-> valPlugin.configSchema[2].key, error |-> "number"]>>

(***************************************************************************)
(* Claims about the MetricsCollector                                       *)
(***************************************************************************)
\* the metrics that recordWithResponse pushed, in order
C16_Scored == SelectSeq(metrics, LAMBDA m : m.repetitionScore # NoScore)

\* the responses recorded immediately before the n-th one, at most
\* maxPreviousResponses of them
C16_Window(n) == {k \in 1..(n - 1) : k >= n - 10}

\* C16: after any sequence of recordWithResponse calls the repetition score
\* of the n-th response is the maximum similarity between it and the
\* min(n-1, 10) responses recorded immediately before it (0 for the first),
\* and the collector retains no more than the 10 most recent responses.
C16_ScoreIsMaxOverLastTen ==
    /\ Len(C16_Scored) = Len(responsesSeen)
    /\ \A n \in 1..Len(responsesSeen) :
          LET score == C16_Scored[n].repetitionScore
              sims == {calculateSimilarity(responsesSeen[n], responsesSeen[k]) :
                          k \in C16_Window(n)}
          IN IF sims = {} THEN score = 0
             ELSE score \in sims /\ \A v \in sims : v <= score
    /\ Len(previousResponses) <= 10
    /\ Len(previousResponses) = (IF Len(responsesSeen) < 10 THEN Len(responsesSeen) ELSE 10)
    /\ \A i \in 1..Len(previousResponses) :
          previousResponses[i] =
              responsesSeen[Len(responsesSeen) - Len(previousResponses) + i]

\* twelve responses: "a", ten times "ab", and "a" again, which is scored
\* against the ten "ab" only
C16_Witness ==
    /\ Len(responsesSeen) = 12
    /\ responsesSeen[1] = <<"a">>
    /\ \A k \in 2..11 : responsesSeen[k] = <<"a", "b">>
    /\ responsesSeen[12] = <<"a">>
    /\ metrics[Len(metrics)].repetitionScore = ScoreScale \div 2
    /\ Len(previousResponses) = 10

\* C17: calculateSimilarity is symmetric, lies in [0,1] and gives
\* sim(a,a) = 1, for all strings a and b.
C17_SimilaritySymmetricBounded ==
    simResult # NoSimilarity =>
        /\ simResult.ab = simResult.ba
        /\ 0 <= simResult.ab /\ simResult.ab <= ScoreScale
        /\ simResult.aa = ScoreScale

\* "Ab" against " a": the strings differ in case, white space and length,
\* and their similarity is 1/2 both ways round
C17_Witness ==
    /\ simArgs = << <<"A", "b">>, <<" ", "a">> >>
    /\ simResult.ab = ScoreScale \div 2
    /\ simResult.ba = ScoreScale \div 2

\* the sample getSummary takes its percentiles from: the response times of
\* the successful metrics
C18_CollectorSample == SuccessfulTimes(metrics)

\* the sample the worker takes them from: the response times of the sent
\* messages that have one
C18_WorkerSample == PositiveTimes(sentMessages)

\* v is the element at (0-based) index i of the ascending-sorted sample:
\* at most i elements are smaller and more than i are not larger
C18_IsSortedElement(sample, i, v) ==
    /\ Cardinality({j \in DOMAIN sample : sample[j] < v}) <= i
    /\ Cardinality({j \in DOMAIN sample : sample[j] <= v}) > i

\* v is the element at index floor(n * percent / 100), an index in 0..n-1
C18_IsPercentile(sample, percent, v) ==
    \E i \in 0..(Len(sample) - 1) :
        /\ i * 100 <= Len(sample) * percent
        /\ Len(sample) * percent < (i + 1) * 100
        /\ C18_IsSortedElement(sample, i, v)

C18_Reported(result, sample) ==
    (result.called /\ Len(sample) > 0) =>
        /\ C18_IsPercentile(sample, 50, result.p50)
        /\ C18_IsPercentile(sample, 95, result.p95)
        /\ C18_IsPercentile(sample, 99, result.p99)

\* C18: for a non-empty sample of n response times the reported p50, p95
\* and p99 are the elements of the ascending-sorted sample at index
\* floor(n*0.5), floor(n*0.95) and floor(n*0.99), each within 0..n-1, in
\* MetricsCollector.getSummary and in the metrics aggregation worker.
C18_PercentilesBySortedIndex ==
    /\ C18_Reported(summary, C18_CollectorSample)
    /\ C18_Reported(workerSummary, C18_WorkerSample)

\* the sample 50, 40, 30, 20, 10: p50 = 30 and p95 = 50, in both places
C18_Witness ==
    /\ C18_CollectorSample = <<50, 40, 30, 20, 10>>
    /\ C18_WorkerSample = <<50, 40, 30, 20, 10>>
    /\ summary.called /\ summary.p50 = 30 /\ summary.p95 = 50
    /\ workerSummary.called /\ workerSummary.p50 = 30 /\ workerSummary.p95 = 50

\* C19: an SSE sendMessage resolves only when a chunk carrying a completion
\* sentinel (done, finished or complete) has arrived, and the content it
\* returns is the in-order concatenation of the content of every chunk
\* received before that sentinel; chunks arriving after the sentinel
\* contribute nothing.
C19_ContentIsChunksBeforeSentinel ==
    connector = "SSE" =>
        \A c \in DOMAIN calls :
            calls[c].status = "resolved" =>
                /\ calls[c].streamComplete
                /\ FirstSentinel(calls[c]) > 0
                /\ calls[c].content =
                       SubSeq(calls[c].received, 1, FirstSentinel(calls[c]) - 1)

\* a call that resolved with the chunk it had received, after whose completion
\* signal another chunk arrived
C19_Witness ==
    /\ connector = "SSE"
    /\ \E c \in DOMAIN calls :
           /\ calls[c].status = "resolved"
           /\ calls[c].content = <<"x">>
           /\ calls[c].received = <<"x", "completion", "y">>

\* C20: after disconnect() has been called on a WebSocketConnector, and
\* until connect() is called, the connector creates no new socket and is
\* not connected: only disconnects that disconnect() did not cause are
\* followed by an automatic reconnection.
C20_NoReconnectAfterDisconnect ==
    /\ [](disconnectCalled => ~isConnected)
    /\ [][(disconnectCalled /\ disconnectCalled') =>
             Len(connections') = Len(connections)]_vars

(***************************************************************************)
(* Claims about the WebSocket connector's queue, sockets and reconnection  *)
(***************************************************************************)
\* C21: the timeout timer and the send-error callback of a WebSocket
\* sendMessage call remove from the pending queue only that call's own
\* entry, never the entry of another call, also when that call carries the
\* same message text or when the timer's own call is already resolved.
C21_CallbacksRemoveOwnEntryOnly ==
    [][\A c \in DOMAIN calls :
          (\/ calls[c].timer /\ ~calls'[c].timer
           \/ calls[c].sendCb = "error" /\ calls'[c].sendCb = "none") =>
              \A d \in Range(messageQueue) \ Range(messageQueue') : d = c]_vars

\* the sockets of the connector that are open or opening
C22_LiveSockets ==
    {k \in DOMAIN connections : connections[k].socket \in {"connecting", "open"}}

\* C22: a WebSocketConnector never has more than one underlying socket open
\* or opening at the same time, in any interleaving of connect(),
\* disconnect(), socket close events and pending reconnection timers.
C22_AtMostOneLiveSocket ==
    connector = "WEBSOCKET" => Cardinality(C22_LiveSockets) <= 1

\* the sends the connector accepted that are neither resolved nor rejected
C23_PendingSends ==
    {c \in DOMAIN calls : calls[c].status = "pending" /\ calls[c].socket # 0}

\* C23: when the WebSocket closes, every send pending at that moment is
\* rejected with a disconnect failure and the pending queue is empty
\* afterwards; and no send issued on one connection is resolved by a frame
\* received on a later connection.
C23_CloseRejectsPendingSends ==
    /\ [][\A k \in DOMAIN connections :
             (connections[k].socket # "closed" /\ connections'[k].socket = "closed") =>
                 /\ messageQueue' = <<>>
                 /\ \A c \in C23_PendingSends :
                        /\ calls'[c].status = "rejected"
                        /\ calls'[c].error = "disconnected"]_vars
    /\ [][\A k \in DOMAIN connections, c \in C23_PendingSends :
             (WsMessage(k, TRUE) /\ calls'[c].status = "resolved") =>
                 calls[c].socket >= k]_vars

\* the connection attempt that connect() last made has failed
C24_AttemptFailed ==
    /\ connectionPromise # 0
    /\ connections[connectionPromise].promise = "rejected"

\* C24: after a connection attempt of a WebSocketConnector has failed
\* (error, invalid endpoint, connection timeout, or reconnection attempts
\* used up), a connect() call starts a new attempt instead of returning the
\* earlier failure.
C24_ConnectRetriesAfterFailure ==
    (connector = "WEBSOCKET" /\ C24_AttemptFailed /\ SocketsLeft) => ENABLED WsConnect

\* C25: a WebSocketConnector makes at most 5 consecutive automatic
\* reconnection attempts without an intervening successful open: the
\* reconnect counter stays within 0..5, every reconnection scheduled counts
\* one up, the counter goes back only to 0 and only when a socket opens, and
\* once it is 5 no further reconnection is scheduled.
C25_AtMostFiveReconnections ==
    /\ [](reconnectAttempts \in 0..5)
    /\ [][reconnectTimers' > reconnectTimers =>
             reconnectAttempts' = reconnectAttempts + 1]_vars
    /\ [][reconnectAttempts' < reconnectAttempts =>
             /\ reconnectAttempts' = 0
             /\ \E k \in DOMAIN connections :
                    connections[k].socket = "connecting" /\ connections'[k].socket = "open"]_vars
    /\ [][reconnectAttempts = 5 => reconnectTimers' <= reconnectTimers]_vars

\* the fifth reconnection has failed as well: the counter is 5, every socket
\* is closed and no reconnection is pending
C25_Witness ==
    /\ reconnectAttempts = 5
    /\ reconnectTimers = 0
    /\ Len(connections) = 3
    /\ \A k \in DOMAIN connections : connections[k].socket = "closed"
    /\ ~disconnectCalled

(***************************************************************************)
(* Further claims about the batch routes and the metrics worker            *)
(***************************************************************************)
\* C26: if POST /api/execute/batch answers with an error status, no session
\* of that request exists in the store and no job of it is enqueued: a
\* failure while creating or enqueueing the session of one target leaves no
\* session of another target, and no PENDING session without a queued job.
C26_ErrorLeavesNoSession ==
    \A r \in DOMAIN requests :
        requests[r].response \notin {0, 202} =>
            /\ CreatedBy(r) = {}
            /\ \A j \in DOMAIN sessionJobs : sessionJobs[j].sessionId \notin CreatedBy(r)

\* the order of the statuses GET reports for a batch
C27_BatchRank(status) ==
    CASE status = "pending" -> 0
      [] status = "running" -> 1
      [] OTHER -> 2

\* C27: while the member sessions of a batch only move forward through
\* their statuses, the status reported by successive GET
\* /api/execute/batch/{batchId} calls never moves backward in the order
\* pending, running, completed / completed_with_errors, progress never
\* decreases, and progress is 100 exactly when every member is terminal.
C27_ReportedStatusOnlyMovesForward ==
    [][\A b \in 1..MaxRequests :
          (forwardOnly /\ lastGet'[b] # lastGet[b] /\ lastGet'[b].code = 200) =>
              /\ lastGet[b].code = 200 =>
                     /\ C27_BatchRank(lastGet'[b].status) >= C27_BatchRank(lastGet[b].status)
                     /\ lastGet'[b].progress >= lastGet[b].progress
              /\ lastGet'[b].progress = 10000 <=>
                     \A i \in DOMAIN members(b) : members(b)[i] \in TerminalStatuses]_vars

\* the runs of the job handler that have returned
C28_Returned(result) ==
    {w \in DOMAIN jobRuns : jobRuns[w].pc = "done" /\ jobRuns[w].result = result}

\* C28: processing the same metrics-aggregation job more than once
\* (redelivered, or handled by two workers concurrently) over an unchanged
\* message log leaves the session with the summaryMetrics that processing
\* it once gives: the first write stores the aggregate of the log and every
\* later write stores the same value; a run that cannot aggregate (no log
\* path, unreadable log, no messages) leaves summaryMetrics unchanged.
C28_AggregationIsIdempotent ==
    /\ [](sessionSummary \in {NoMetrics, aggregatedMetrics(messagesJsonl)})
    /\ [](C28_Returned("success") # {} => sessionSummary = aggregatedMetrics(messagesJsonl))
    /\ [][sessionSummary # NoMetrics => sessionSummary' = sessionSummary]_vars
    /\ [][summaryWrites' = summaryWrites => sessionSummary' = sessionSummary]_vars
    /\ [](summaryWrites = Cardinality(C28_Returned("success")))

\* both deliveries were processed over a log of two sent messages, one of
\* them failed, and both wrote the summary
C28_Witness ==
    /\ summaryWrites = 2
    /\ C28_Returned("success") = {1, 2}
    /\ sessionSummary.messageCount = 2
    /\ sessionSummary.errorCount = 1
    /\ sessionSummary.p50ResponseTimeMs = 20

\* C29: whenever MetricsCollector.getSummary returns a summary (at least
\* one metric recorded), totalMessages = successfulMessages + failedMessages
\* and avgResponseTimeMs is a defined number, also when every recorded
\* message failed.
C29_SummaryCountsAndAverageDefined ==
    summary.called =>
        /\ summary.totalMessages = summary.successfulMessages + summary.failedMessages
        /\ summary.avgResponseTimeMs # NaN

\* C30: SSEConnector.disconnect() closes every event stream the connector
\* opened for a sendMessage call still in flight: while the connector is
\* disconnected no stream of it is open, and no send that was pending
\* resolves with content.
C30_DisconnectClosesStreams ==
    /\ []((connector = "SSE" /\ ~isConnected) =>
             \A c \in DOMAIN calls : calls[c].stream # "open")
    /\ [][(connector = "SSE" /\ ~isConnected /\ ~isConnected') =>
             \A c \in DOMAIN calls :
                 calls[c].status = "pending" => calls'[c].status # "resolved"]_vars

====
